---- MODULE Spec2Model ----
(***************************************************************************)
(* A model of the play designer's interactive canvas controller.          *)
(*                                                                         *)
(*   - src/components/Field.tsx : pointer state machine with token drag,  *)
(*     waypoint (route handle) drag, tap-to-extend and the two animation- *)
(*     frame batch slots.                                                  *)
(*   - src/unnamed/part_000 (App): the owner of the artifact (currentPlay)*)
(*     and of the selection; handleUpdatePlayer, applyRoutePreset,        *)
(*     handleDeletePlayer, handleClearRoutes, handleGenerateInsights,      *)
(*     handleCreatePlay, handleEditPlay, handleAddDefender.                *)
(*   - src/unnamed/part_001 : the Field variant with a pan/zoom viewport. *)
(*   - src/services/storage.ts : getPlays, savePlay, deletePlay and the   *)
(*     plays the playbook starts with.                                     *)
(*                                                                         *)
(* Specifications: Spec (a session on Field.tsx), SpecFair (the same with *)
(* frame callbacks run fairly), SpecView (a session on the viewport       *)
(* Field), SpecEditor (the editor's buttons on the plays of the playbook),*)
(* SpecInsights (a session with advisory text), SpecDegenerate (a session *)
(* in which the svg's screen transform comes and goes), SpecStorage (the  *)
(* storage service on any stored item), SpecClamp (clampViewport on any   *)
(* candidate), SpecTrail (a long token drag), SpecPlaybook (the            *)
(* application from the playbook view), SpecReadOnly (a session in which   *)
(* the read-only flag is switched), SpecDefense (a session with added      *)
(* defenders) and SpecInsightsFair (advisory text whose call settles).     *)
(*                                                                         *)
(* A nullable value of the source (T | null, T | undefined) is the empty  *)
(* sequence None or the one-element sequence Some(v).                      *)
(***************************************************************************)
EXTENDS Integers, Sequences, FiniteSets, TLC

VARIABLES
    currentPlay,        \* App state: the players of the play being edited
    selectedPlayerId,   \* App state: None or Some(id)
    interaction,        \* Field: interactionRef.current
    pendingFrame,       \* Field: pendingFrameRef, with the closure of its callback
    latestPoint,        \* Field: latestPointRef.current
    pendingRouteFrame,  \* Field: pendingRouteFrame, with the closure of its callback
    dragTrail,          \* Field: dragTrail state
    isDragging,         \* Field: isDragging state
    viewport,           \* part_001: viewport state (fixed point, see below)
    vInteraction,       \* part_001: interactionRef.current
    mounted,            \* Field: the component is mounted
    notes,              \* App state: currentPlay.notes, a list of paragraphs
    pendingInsights,    \* App: the getCoachingInsights call in flight, with
                        \*      the closure of its continuation
    storage,            \* localStorage: the item stored under STORAGE_KEY
    svgCTM,             \* browser: svgRef.current.getScreenCTM() is not null
    readOnly,           \* Field: the readOnly prop
    captured,           \* Field: the pointer ids its handlers have captured
                        \*        (setPointerCapture) and have not released
                        \*        (releasePointerCapture)
    pressed,            \* history: pointers pressed and not yet released
    scheduled,          \* history: per token, the last point a drag of it
                        \*          handed to schedulePlayerUpdate
    ev,                 \* history: the event the last step handled
    calls,              \* history: the onUpdatePlayer calls the last step made
    written,            \* history: the points the last step wrote into the play
    batch,              \* history: move events since the token frame was requested
    routeBatch,         \* history: move events since the route frame was requested
    sinceFrame,         \* history: events handled while a frame callback is pending
    nOps                \* history: number of steps taken so far

fieldVars == <<interaction, pendingFrame, latestPoint, pendingRouteFrame,
               dragTrail, isDragging>>
appVars   == <<currentPlay, selectedPlayerId>>
envVars   == <<pendingInsights, storage, svgCTM, readOnly>>
otherVars == <<envVars, captured>>
viewVars  == <<viewport, vInteraction>>
histVars  == <<pressed, scheduled, ev, calls, written, batch, routeBatch,
               sinceFrame, nOps>>
vars      == <<currentPlay, selectedPlayerId, interaction, pendingFrame,
               latestPoint, pendingRouteFrame, dragTrail, isDragging,
               viewport, vInteraction, mounted, notes, pendingInsights,
               storage, svgCTM, readOnly, captured, pressed, scheduled, ev,
               calls, written, batch, routeBatch, sinceFrame, nOps>>

None == <<>>
Some(v) == <<v>>
IsSome(o) == Len(o) = 1
Get(o) == o[1]

Min(a, b) == IF a < b THEN a ELSE b
Max(a, b) == IF a > b THEN a ELSE b

-----------------------------------------------------------------------------
(* Program constants *)

FIELD_WIDTH == 100
FIELD_HEIGHT == 80
(* The inset the drag handlers and applyRoutePreset clamp with. *)
MARGIN == 2
(* dragTrail keeps the last TRAIL_MAX points: slice(-10). *)
TRAIL_MAX == 10

OFFENSE == "OFFENSE"
DEFENSE == "DEFENSE"

-----------------------------------------------------------------------------
(* Bounds of the model *)

(* Events handled between the request of an animation frame and the run of *)
(* its callback (the display refreshes every few events at most).          *)
MaxFrameEvents == 3
(* Events and frame callbacks of one editing session. *)
MaxEvents == 7
MaxFairEvents == 5
(* Longest route tap-to-extend is allowed to build. *)
MaxRoute == 1
(* Longest drag trail the model lets grow before it stops scheduling. *)
MaxTrail == 1

PointerIds == {"ptr1", "ptr2"}

(* Screen-to-model transform of the svg without viewport (Field.tsx): the  *)
(* element is laid out CTM.a = CTM.d pixels per model unit at offset       *)
(* (CTM.e, CTM.f).                                                         *)
CTM == [a |-> 4, d |-> 4, e |-> 8, f |-> 16]

(* Client (pixel) positions of the pointer events. Under CTM they map to   *)
(* the model points (150,10), far outside the surface, and (1,79), inside  *)
(* the surface but outside the margin.                                     *)
ClientPts == { [clientX |-> 608, clientY |-> 56],
               [clientX |-> 12,  clientY |-> 332] }

-----------------------------------------------------------------------------
(* Field.tsx *)

Pt(x, y) == [x |-> x, y |-> y]

(* getSvgPoint(clientX, clientY): (0,0) when getScreenCTM() gives null     *)
(* (getSvgPointAssumed: the conversion that takes the transform for        *)
(* granted). The handlers run on a mounted Field, where svgRef.current is  *)
(* set.                                                                    *)
getSvgPointAssumed(c) ==
    Pt((c.clientX - CTM.e) \div CTM.a, (c.clientY - CTM.f) \div CTM.d)
getSvgPoint(c) ==
    IF ~svgCTM THEN Pt(0, 0)
    ELSE Pt((c.clientX - CTM.e) \div CTM.a, (c.clientY - CTM.f) \div CTM.d)

(* Math.max(2, Math.min(FIELD_WIDTH - 2, point.x)), same for y *)
ClampDragBroken(point) ==
    Pt(Max(0, Min(FIELD_WIDTH, point.x)), Max(0, Min(FIELD_HEIGHT, point.y)))
ClampDrag(point) ==
    Pt(Max(MARGIN, Min(FIELD_WIDTH - MARGIN, point.x)),
       Max(MARGIN, Min(FIELD_HEIGHT - MARGIN, point.y)))

(* Math.max(0, Math.min(FIELD_WIDTH, point.x)), same for y *)
ClampTapNone(point) == point
ClampTap(point) ==
    Pt(Max(0, Min(FIELD_WIDTH, point.x)), Max(0, Min(FIELD_HEIGHT, point.y)))

NoInteraction ==
    [pointerId |-> "null", type |-> "null", playerId |-> "", routeIndex |-> None,
     startPoint |-> None, moved |-> FALSE]

(* play.players.find(p => p.id === id): None or Some(player) *)
FindPlayer(players, id) ==
    LET idx == {i \in 1..Len(players) : players[i].id = id}
    IN  IF idx = {} THEN None
        ELSE Some(players[CHOOSE i \in idx : \A j \in idx : i <= j])

(* App.handleUpdatePlayer, as closed over the players of one render: the  *)
(* players of setCurrentPlay({ ...currentPlay, players: updatedPlayers }). *)
(* The other fields of that render's currentPlay (notes) go with them.     *)
handleUpdatePlayer(players, updatedPlayer) ==
    [i \in 1..Len(players) |->
        IF players[i].id = updatedPlayer.id THEN updatedPlayer ELSE players[i]]

(* The elements a press can land on: a player's <g>, a route handle of the *)
(* selected player (only those are rendered), or the svg itself.           *)
PlayerTargets == {[kind |-> "player", id |-> currentPlay[i].id, pointIndex |-> 0] :
                    i \in 1..Len(currentPlay)}
HandleTargets ==
    UNION {{[kind |-> "route", id |-> currentPlay[i].id, pointIndex |-> k - 1] :
                k \in 1..Len(currentPlay[i].route)} :
           i \in {j \in 1..Len(currentPlay) : selectedPlayerId = Some(currentPlay[j].id)}}
FieldTarget == [kind |-> "field", id |-> "", pointIndex |-> 0]

(* History records. An event: its type, pointer id and mapped point; for a *)
(* release, the selection and the interaction it found (pre); for a frame  *)
(* callback, the batch it closes: the number n of move events since the    *)
(* frame was requested, the raw and the clamped point of the last of them  *)
(* and the route index that move dragged, whether the callback found its   *)
(* token in the play it closed over (found), the token as it was in the    *)
(* current play when the callback ran (before) and the last point a drag   *)
(* of that token scheduled (due). A press records its target, a template   *)
(* application its template and its token, a pan move the client position  *)
(* of its pointer, the completion of an advisory-text call its text, a     *)
(* call of the storage service the value it returned and whether it threw. *)
NoPre == [sel |-> None, itype |-> "null", moved |-> FALSE]
NoTarget == [kind |-> "null", id |-> "", pointIndex |-> 0]
NoBatch == [n |-> 0, last |-> None, raw |-> None, index |-> None]
Event(type, pid, point) ==
    [type |-> type, pointerId |-> pid, point |-> point, n |-> 0, raw |-> None,
     index |-> None, pre |-> NoPre, view |-> None, target |-> NoTarget,
     threw |-> FALSE, found |-> FALSE, due |-> None, before |-> None,
     template |-> "", client |-> None, text |-> "", result |-> None]
FrameEvent(type, b) ==
    [type |-> type, pointerId |-> "null", point |-> b.last, n |-> b.n,
     raw |-> b.raw, index |-> b.index, pre |-> NoPre, view |-> None,
     target |-> NoTarget, threw |-> FALSE, found |-> FALSE, due |-> None,
     before |-> None, template |-> "", client |-> None, text |-> "",
     result |-> None]

(* An event is handled while a frame callback is pending only within the   *)
(* bound; sinceFrame counts the events handled since the request.          *)
FramePending == IsSome(pendingFrame) \/ IsSome(pendingRouteFrame)
EventAllowed == FramePending => sinceFrame < MaxFrameEvents
CountEvent ==
    /\ nOps' = nOps + 1
    /\ sinceFrame' = IF IsSome(pendingFrame') \/ IsSome(pendingRouteFrame')
                     THEN (IF FramePending THEN sinceFrame + 1 ELSE 0)
                     ELSE 0

(* handlePointerDown(e, player?, routeHandle?): nothing if readOnly, else   *)
(* the interaction of the pressed element, with the pointer captured by     *)
(* e.currentTarget.setPointerCapture. handlePointerDownNoHandle is the      *)
(* handler that takes no routeHandle, as the one of part_001.               *)
handlePointerDownNoHandle(pid, target, c) ==
    LET point == getSvgPoint(c) IN
    /\ \/ /\ readOnly
          /\ UNCHANGED <<selectedPlayerId, isDragging, interaction, captured>>
       \/ /\ ~readOnly
          /\ target.kind = "player"
          /\ selectedPlayerId' = Some(target.id)
          /\ isDragging' = TRUE
          /\ interaction' = [pointerId |-> pid, type |-> "player",
                             playerId |-> target.id, routeIndex |-> None,
                             startPoint |-> Some(point), moved |-> FALSE]
          /\ captured' = captured \cup {pid}
       \/ /\ ~readOnly
          /\ target.kind # "player"
          /\ interaction' = [pointerId |-> pid, type |-> "field",
                             playerId |-> "", routeIndex |-> None,
                             startPoint |-> Some(point), moved |-> FALSE]
          /\ captured' = captured \cup {pid}
          /\ UNCHANGED <<selectedPlayerId, isDragging>>
    /\ ev' = [Event("down", pid, None) EXCEPT !.target = target]
    /\ calls' = <<>>
    /\ written' = {}
    /\ UNCHANGED <<currentPlay, pendingFrame, latestPoint, pendingRouteFrame,
                   dragTrail, viewVars, scheduled, batch, routeBatch>>
handlePointerDown(pid, target, c) ==
    LET point == getSvgPoint(c) IN
    /\ \/ /\ readOnly
          /\ UNCHANGED <<selectedPlayerId, isDragging, interaction, captured>>
       \/ /\ ~readOnly
          /\ target.kind = "player"
          /\ selectedPlayerId' = Some(target.id)
          /\ isDragging' = TRUE
          /\ interaction' = [pointerId |-> pid, type |-> "player",
                             playerId |-> target.id, routeIndex |-> None,
                             startPoint |-> Some(point), moved |-> FALSE]
          /\ captured' = captured \cup {pid}
       \/ /\ ~readOnly
          /\ target.kind = "route"
          /\ interaction' = [pointerId |-> pid, type |-> "route",
                             playerId |-> target.id,
                             routeIndex |-> Some(target.pointIndex),
                             startPoint |-> Some(point), moved |-> FALSE]
          /\ captured' = captured \cup {pid}
          /\ UNCHANGED <<selectedPlayerId, isDragging>>
       \/ /\ ~readOnly
          /\ target.kind = "field"
          /\ interaction' = [pointerId |-> pid, type |-> "field",
                             playerId |-> "", routeIndex |-> None,
                             startPoint |-> Some(point), moved |-> FALSE]
          /\ captured' = captured \cup {pid}
          /\ UNCHANGED <<selectedPlayerId, isDragging>>
    /\ ev' = [Event("down", pid, None) EXCEPT !.target = target]
    /\ calls' = <<>>
    /\ written' = {}
    /\ UNCHANGED <<currentPlay, pendingFrame, latestPoint, pendingRouteFrame,
                   dragTrail, viewVars, scheduled, batch, routeBatch>>

(* Where a press that lands on a target is: on a player or a handle, at    *)
(* the element's centre; on the empty surface, anywhere.                   *)
ToClient(point) ==
    [clientX |-> point.x * CTM.a + CTM.e, clientY |-> point.y * CTM.d + CTM.f]
TargetClientPts(target) ==
    LET player == Get(FindPlayer(currentPlay, target.id)) IN
    CASE target.kind = "player" -> {ToClient(Pt(player.x, player.y))}
      [] target.kind = "route"  -> {ToClient(player.route[target.pointIndex + 1])}
      [] OTHER                  -> ClientPts

PointerDown ==
    /\ EventAllowed
    /\ \E pid \in PointerIds,
       target \in PlayerTargets \cup HandleTargets \cup {FieldTarget} :
          \E c \in TargetClientPts(target) :
             /\ handlePointerDown(pid, target, c)
             /\ pressed' = pressed \cup {pid}
    /\ UNCHANGED mounted
    /\ CountEvent
    /\ UNCHANGED <<notes, envVars>>

(* schedulePlayerUpdate(playerId, point): the new values of latestPointRef *)
(* and pendingFrameRef. The callback closes over playerId and over the     *)
(* play and onUpdatePlayer props of the render that scheduled it.          *)
schedulePlayerUpdateFirstWins(playerId, point) ==
    /\ latestPoint' = IF pendingFrame = None THEN Some(point) ELSE latestPoint
    /\ pendingFrame' = IF pendingFrame = None
                       THEN Some([playerId |-> playerId, play |-> currentPlay,
                                  notes |-> notes])
                       ELSE pendingFrame
schedulePlayerUpdate(playerId, point) ==
    /\ latestPoint' = Some(point)
    /\ pendingFrame' = IF pendingFrame = None
                       THEN Some([playerId |-> playerId, play |-> currentPlay,
                                  notes |-> notes])
                       ELSE pendingFrame

(* interaction.pointerId !== e.pointerId is the handler's first test      *)
(* (AnyPointerMatches: the handler without it).                            *)
AnyPointerMatches(pid) == TRUE
PointerMatches(pid) == interaction.pointerId = pid

(* handlePointerMove(e) *)
handlePointerMove(pid, c) ==
    LET point == getSvgPoint(c) IN
    /\ ev' = Event("move", pid, None)
    /\ calls' = <<>>
    /\ written' = {}
    /\ scheduled' = IF ~readOnly /\ PointerMatches(pid)
                       /\ interaction.type = "player"
                    THEN [scheduled EXCEPT
                             ![interaction.playerId] = Some(ClampDrag(point))]
                    ELSE scheduled
    /\ \/ /\ (readOnly \/ ~PointerMatches(pid) \/ interaction.type = "null")
          /\ UNCHANGED <<interaction, pendingFrame, latestPoint,
                         pendingRouteFrame, batch, routeBatch>>
       \/ /\ ~readOnly
          /\ PointerMatches(pid)
          /\ interaction.type = "player"
          /\ interaction' = [interaction EXCEPT !.moved = TRUE]
          /\ schedulePlayerUpdate(interaction.playerId, ClampDrag(point))
          /\ batch' = [n |-> batch.n + 1, last |-> Some(ClampDrag(point)),
                        raw |-> Some(point), index |-> None]
          /\ UNCHANGED <<pendingRouteFrame, routeBatch>>
       \/ /\ ~readOnly
          /\ PointerMatches(pid)
          /\ interaction.type = "route"
          /\ interaction' = [interaction EXCEPT !.moved = TRUE]
          /\ pendingRouteFrame' =
                IF pendingRouteFrame = None
                THEN Some([playerId |-> interaction.playerId,
                           routeIndex |-> Get(interaction.routeIndex),
                           clamped |-> ClampDrag(point),
                           play |-> currentPlay, notes |-> notes])
                ELSE pendingRouteFrame
          /\ routeBatch' = [n |-> routeBatch.n + 1,
                             last |-> Some(ClampDrag(point)),
                             raw |-> Some(point),
                             index |-> interaction.routeIndex]
          /\ UNCHANGED <<pendingFrame, latestPoint, batch>>
       \/ /\ ~readOnly
          /\ PointerMatches(pid)
          /\ interaction.type = "field"
          /\ interaction' = [interaction EXCEPT !.moved = TRUE]
          /\ UNCHANGED <<pendingFrame, latestPoint, pendingRouteFrame,
                         batch, routeBatch>>
    /\ UNCHANGED <<currentPlay, selectedPlayerId, dragTrail, isDragging,
                   viewVars>>

(* A move event of a token drag is handled while the drag trail is within  *)
(* its bound (PointerMove); DragMove is a move event of a pressed pointer, *)
(* however long the trail.                                                 *)
TokenDragLive(pid) ==
    ~readOnly /\ PointerMatches(pid) /\ interaction.type = "player"
PointerMove ==
    /\ EventAllowed
    /\ \E pid \in PointerIds, c \in ClientPts :
          /\ TokenDragLive(pid) => Len(dragTrail) < MaxTrail
          /\ handlePointerMove(pid, c)
    /\ UNCHANGED <<mounted, pressed>>
    /\ CountEvent
    /\ UNCHANGED <<notes, otherVars>>
DragMove ==
    /\ EventAllowed
    /\ \E pid \in pressed, c \in ClientPts : handlePointerMove(pid, c)
    /\ UNCHANGED <<mounted, pressed>>
    /\ CountEvent
    /\ UNCHANGED <<notes, otherVars>>

(* currentPlayer && currentPlayer.role === PlayerRole.OFFENSE *)
CanExtendAnyRole(currentPlayer) == IsSome(currentPlayer)
CanExtend(currentPlayer) ==
    IsSome(currentPlayer) /\ Get(currentPlayer).role = OFFENSE

(* try { releasePointerCapture(e.pointerId) } catch (err) { }: whether the  *)
(* handler goes on after the call, given that the call throws or not       *)
(* (ReleaseUncaught: the call without the try).                            *)
ReleaseUncaught(throws) == ~throws
ReleaseCaught(throws) == TRUE

(* handlePointerUp(e), the handler of the svg's onPointerUp ("up") and     *)
(* onPointerLeave ("leave"); throws: releasePointerCapture throws          *)
handlePointerUp(kind, pid, c, throws) ==
    LET point == getSvgPoint(c)
        currentPlayer == FindPlayer(currentPlay, Get(selectedPlayerId))
        isTap == /\ interaction.type = "field"
                 /\ ~interaction.moved
                 /\ IsSome(selectedPlayerId)
        extends == isTap /\ CanExtend(currentPlayer)
        newPoint == ClampTap(point)
        updated == [Get(currentPlayer) EXCEPT
                        !.route = Append(Get(currentPlayer).route, newPoint)]
    IN
    /\ ev' = [Event(kind, pid, Some(point)) EXCEPT
                 !.pre = IF interaction.pointerId = pid
                         THEN [sel |-> selectedPlayerId,
                               itype |-> interaction.type,
                               moved |-> interaction.moved]
                         ELSE NoPre,
                 !.threw = interaction.pointerId = pid /\ throws]
    /\ \/ /\ interaction.pointerId # pid
          /\ ~throws
          /\ calls' = <<>>
          /\ written' = {}
          /\ UNCHANGED <<interaction, isDragging, dragTrail, currentPlay,
                         selectedPlayerId, captured>>
       \/ /\ interaction.pointerId = pid
          /\ extends => Len(Get(currentPlayer).route) < MaxRoute
          /\ captured' = captured \ {pid}
          /\ IF interaction.type = "player"
             THEN isDragging' = FALSE /\ dragTrail' = <<>>
             ELSE UNCHANGED <<isDragging, dragTrail>>
          /\ IF extends
             THEN /\ calls' = <<updated>>
                  /\ written' = {newPoint}
                  /\ currentPlay' = handleUpdatePlayer(currentPlay, updated)
                  /\ UNCHANGED selectedPlayerId
             ELSE /\ calls' = <<>>
                  /\ written' = {}
                  /\ selectedPlayerId' = IF isTap THEN None ELSE selectedPlayerId
                  /\ UNCHANGED currentPlay
          /\ interaction' = IF ReleaseCaught(throws) THEN NoInteraction
                            ELSE interaction
    /\ UNCHANGED <<pendingFrame, latestPoint, pendingRouteFrame, viewVars,
                   scheduled, batch, routeBatch>>

PointerUp ==
    /\ EventAllowed
    /\ \E pid \in PointerIds, c \in ClientPts, throws \in BOOLEAN :
          /\ handlePointerUp("up", pid, c, throws)
          /\ pressed' = pressed \ {pid}
    /\ UNCHANGED mounted
    /\ CountEvent
    /\ UNCHANGED <<notes, envVars>>

(* The pointer leaves the svg *)
PointerLeave ==
    /\ EventAllowed
    /\ \E pid \in PointerIds, c \in ClientPts, throws \in BOOLEAN :
          /\ handlePointerUp("leave", pid, c, throws)
          /\ pressed' = pressed \ {pid}
    /\ UNCHANGED mounted
    /\ CountEvent
    /\ UNCHANGED <<notes, envVars>>

(* prev => [...prev, point].slice(-10) (LastNAll: without the slice) *)
LastNAll(s, n) == s
LastN(s, n) == IF Len(s) <= n THEN s ELSE SubSeq(s, Len(s) - n + 1, Len(s))

(* The animation-frame callback requested by schedulePlayerUpdate. It reads *)
(* latestPointRef when it runs; play and onUpdatePlayer are those of the    *)
(* render that requested it.                                                *)
PlayerFrameCallback ==
    /\ IsSome(pendingFrame)
    /\ LET closure == Get(pendingFrame)
           player == FindPlayer(closure.play, closure.playerId)
           updated == [Get(player) EXCEPT !.x = Get(latestPoint).x,
                                          !.y = Get(latestPoint).y]
       IN
       /\ pendingFrame' = None
       /\ IF IsSome(latestPoint) /\ IsSome(player)
          THEN /\ calls' = <<updated>>
               /\ written' = {Get(latestPoint)}
               /\ currentPlay' = handleUpdatePlayer(closure.play, updated)
               /\ notes' = closure.notes
               /\ dragTrail' = LastN(Append(dragTrail, Get(latestPoint)), TRAIL_MAX)
          ELSE /\ calls' = <<>>
               /\ written' = {}
               /\ UNCHANGED <<currentPlay, notes, dragTrail>>
       /\ ev' = [FrameEvent("frame", batch) EXCEPT
                    !.found = IsSome(player),
                    !.target = [kind |-> "player", id |-> closure.playerId,
                                pointIndex |-> 0],
                    !.due = scheduled[closure.playerId],
                    !.before = FindPlayer(currentPlay, closure.playerId)]
    /\ batch' = NoBatch
    /\ UNCHANGED <<selectedPlayerId, interaction, latestPoint, pendingRouteFrame,
                   isDragging, viewVars, mounted, pressed, scheduled, routeBatch>>
    /\ CountEvent
    /\ UNCHANGED otherVars

(* The animation-frame callback requested by a route-handle move. playerId, *)
(* routeIndex and clamped are those of the move event that requested it.    *)
RouteFrameCallback ==
    /\ IsSome(pendingRouteFrame)
    /\ LET closure == Get(pendingRouteFrame)
           player == FindPlayer(closure.play, closure.playerId)
           route == Get(player).route
           updatedRoute == [idx \in 1..Len(route) |->
                               IF idx - 1 = closure.routeIndex
                               THEN closure.clamped ELSE route[idx]]
           updated == [Get(player) EXCEPT !.route = updatedRoute]
       IN
       /\ pendingRouteFrame' = None
       /\ IF IsSome(player)
          THEN /\ calls' = <<updated>>
               /\ written' = IF closure.routeIndex < Len(route)
                             THEN {closure.clamped} ELSE {}
               /\ currentPlay' = handleUpdatePlayer(closure.play, updated)
               /\ notes' = closure.notes
          ELSE /\ calls' = <<>>
               /\ written' = {}
               /\ UNCHANGED <<currentPlay, notes>>
       /\ ev' = [FrameEvent("routeFrame", routeBatch) EXCEPT
                    !.found = IsSome(player),
                    !.target = [kind |-> "route", id |-> closure.playerId,
                                pointIndex |-> closure.routeIndex],
                    !.before = FindPlayer(currentPlay, closure.playerId)]
    /\ routeBatch' = NoBatch
    /\ UNCHANGED <<selectedPlayerId, interaction, pendingFrame, latestPoint,
                   dragTrail, isDragging, viewVars, mounted, pressed, scheduled,
                   batch>>
    /\ CountEvent
    /\ UNCHANGED otherVars

(* The cleanup of the mount effect: cancelAnimationFrame for each pending   *)
(* frame (UnmountToken: the cleanup that knows of pendingFrameRef only).    *)
(* The component's state and its interaction go with it; the refs a         *)
(* callback closed over stay as they are. The event records the number of   *)
(* callbacks that were pending.                                              *)
UnmountToken ==
    /\ mounted
    /\ mounted' = FALSE
    /\ pendingFrame' = None
    /\ interaction' = NoInteraction
    /\ dragTrail' = <<>>
    /\ isDragging' = FALSE
    /\ pressed' = {}
    /\ captured' = {}
    /\ scheduled' = [id \in DOMAIN scheduled |-> None]
    /\ ev' = [Event("unmount", "null", None) EXCEPT
                 !.n = Len(pendingFrame) + Len(pendingRouteFrame)]
    /\ calls' = <<>>
    /\ written' = {}
    /\ batch' = NoBatch
    /\ UNCHANGED <<currentPlay, selectedPlayerId, latestPoint, pendingRouteFrame,
                   viewVars, routeBatch>>
    /\ CountEvent
    /\ UNCHANGED <<notes, envVars>>
Unmount ==
    /\ mounted
    /\ mounted' = FALSE
    /\ pendingFrame' = None
    /\ pendingRouteFrame' = None
    /\ interaction' = NoInteraction
    /\ dragTrail' = <<>>
    /\ isDragging' = FALSE
    /\ pressed' = {}
    /\ captured' = {}
    /\ scheduled' = [id \in DOMAIN scheduled |-> None]
    /\ ev' = [Event("unmount", "null", None) EXCEPT
                 !.n = Len(pendingFrame) + Len(pendingRouteFrame)]
    /\ calls' = <<>>
    /\ written' = {}
    /\ batch' = NoBatch
    /\ routeBatch' = NoBatch
    /\ UNCHANGED <<currentPlay, selectedPlayerId, latestPoint, viewVars>>
    /\ CountEvent
    /\ UNCHANGED <<notes, envVars>>

-----------------------------------------------------------------------------
(* App (src/unnamed/part_000) *)

RouteTypes == {"fly", "slant", "flat", "out", "in", "hitch", "corner", "post", "wheel"}

(* ROUTE_PRESETS[t].getPoints(x, y, insideDir, outsideDir) *)
getPoints(t, x, y, inDir, outDir) ==
    CASE t = "fly"    -> <<Pt(x, Max(5, y - 40))>>
      [] t = "slant"  -> <<Pt(x, y - 5), Pt(x + inDir * 15, y - 20)>>
      [] t = "flat"   -> <<Pt(x, y - 5), Pt(x + outDir * 15, y - 5)>>
      [] t = "out"    -> <<Pt(x, y - 15), Pt(x + outDir * 15, y - 15)>>
      [] t = "in"     -> <<Pt(x, y - 15), Pt(x + inDir * 15, y - 15)>>
      [] t = "hitch"  -> <<Pt(x, y - 15), Pt(x, y - 12)>>
      [] t = "corner" -> <<Pt(x, y - 15), Pt(x + outDir * 20, y - 40)>>
      [] t = "post"   -> <<Pt(x, y - 15), Pt(x + inDir * 20, y - 45)>>
      [] t = "wheel"  -> <<Pt(x + outDir * 10, y - 5), Pt(x + outDir * 10, y - 35)>>

(* The route applyRoutePreset computes for a player: direction by the side *)
(* of x = 50 the player is on, then every point clamped (PresetRouteRight: *)
(* the directions of the right half wherever the player is).               *)
PresetRouteRight(t, player) ==
    LET newRoute == getPoints(t, player.x, player.y, -1, 1)
    IN  [i \in 1..Len(newRoute) |->
            Pt(Max(2, Min(98, newRoute[i].x)), Max(2, Min(78, newRoute[i].y)))]
PresetRoute(t, player) ==
    LET isLeft == player.x < 50
        inDir == IF isLeft THEN 1 ELSE -1
        outDir == IF isLeft THEN -1 ELSE 1
        newRoute == getPoints(t, player.x, player.y, inDir, outDir)
    IN  [i \in 1..Len(newRoute) |->
            Pt(Max(2, Min(98, newRoute[i].x)), Max(2, Min(78, newRoute[i].y)))]

(* Templates the model's user applies. *)
PresetChoices == {"slant"}

(* applyRoutePreset(template). The Quick Routes buttons are rendered only  *)
(* for a selected offensive player.                                        *)
QuickRoutesShownAnyRole(activePlayer) == TRUE
QuickRoutesShown(activePlayer) == activePlayer.role = OFFENSE

applyRoutePreset(t) ==
    /\ IsSome(selectedPlayerId)
    /\ LET player == FindPlayer(currentPlay, Get(selectedPlayerId))
           clampedRoute == PresetRoute(t, Get(player))
       IN
       /\ IsSome(player)
       /\ QuickRoutesShown(Get(player))
       /\ Get(player).route # clampedRoute
       /\ currentPlay' = handleUpdatePlayer(currentPlay,
                            [Get(player) EXCEPT !.route = clampedRoute])
       /\ written' = {clampedRoute[i] : i \in 1..Len(clampedRoute)}
    /\ ev' = [Event("preset", "null", None) EXCEPT
                 !.template = t,
                 !.target = [kind |-> "player", id |-> Get(selectedPlayerId),
                             pointIndex |-> 0]]
    /\ calls' = <<>>
    /\ UNCHANGED <<selectedPlayerId, interaction, pendingFrame, latestPoint,
                   pendingRouteFrame, dragTrail, isDragging, viewVars, mounted,
                   pressed, scheduled, batch, routeBatch>>

ApplyPreset ==
    /\ EventAllowed
    /\ \E t \in PresetChoices : applyRoutePreset(t)
    /\ CountEvent
    /\ UNCHANGED <<notes, otherVars>>

(* A click on any of the Quick Routes buttons *)
ApplyAnyPreset ==
    /\ EventAllowed
    /\ \E t \in RouteTypes : applyRoutePreset(t)
    /\ CountEvent
    /\ UNCHANGED <<notes, otherVars>>

(* What an App handler leaves alone: everything the Field owns *)
FieldUntouched ==
    /\ calls' = <<>>
    /\ written' = {}
    /\ UNCHANGED <<interaction, pendingFrame, latestPoint, pendingRouteFrame,
                   dragTrail, isDragging, viewVars, mounted, pressed, scheduled,
                   batch, routeBatch>>

(* currentPlay.players.filter(p => p.id !== selectedPlayerId) *)
RemovePlayer(players, id) == SelectSeq(players, LAMBDA p : p.id # id)

(* handleDeletePlayer() *)
handleDeletePlayer ==
    /\ IsSome(selectedPlayerId)
    /\ currentPlay' = RemovePlayer(currentPlay, Get(selectedPlayerId))
    /\ selectedPlayerId' = None
    /\ ev' = [Event("delete", "null", None) EXCEPT
                 !.target = [kind |-> "player", id |-> Get(selectedPlayerId),
                             pointIndex |-> 0]]
    /\ FieldUntouched

DeletePlayer ==
    /\ EventAllowed
    /\ handleDeletePlayer
    /\ CountEvent
    /\ UNCHANGED <<notes, otherVars>>

(* handleClearRoutes(); a click that finds no path to clear is not a step *)
(* (handleClearRoutesSelected: the handler that clears the path of the     *)
(* selected player only).                                                  *)
handleClearRoutesSelected ==
    /\ \E i \in 1..Len(currentPlay) : currentPlay[i].route # <<>>
    /\ currentPlay' = [i \in 1..Len(currentPlay) |->
                          IF selectedPlayerId = Some(currentPlay[i].id)
                          THEN [currentPlay[i] EXCEPT !.route = <<>>]
                          ELSE currentPlay[i]]
    /\ ev' = Event("clear", "null", None)
    /\ UNCHANGED selectedPlayerId
    /\ FieldUntouched
handleClearRoutes ==
    /\ \E i \in 1..Len(currentPlay) : currentPlay[i].route # <<>>
    /\ currentPlay' = [i \in 1..Len(currentPlay) |->
                          [currentPlay[i] EXCEPT !.route = <<>>]]
    /\ ev' = Event("clear", "null", None)
    /\ UNCHANGED selectedPlayerId
    /\ FieldUntouched

ClearRoutes ==
    /\ EventAllowed
    /\ handleClearRoutes
    /\ CountEvent
    /\ UNCHANGED <<notes, otherVars>>

(* The notes textarea: onChange stores the text typed, here the notes with  *)
(* one more paragraph.                                                      *)
MaxNotes == 1
TypeNotes ==
    /\ EventAllowed
    /\ Len(notes) < MaxNotes
    /\ notes' = Append(notes, "typed by the coach")
    /\ ev' = Event("notes", "null", None)
    /\ UNCHANGED <<currentPlay, selectedPlayerId, otherVars>>
    /\ FieldUntouched
    /\ CountEvent

(* What getCoachingInsights resolves to: the model's text, or one of its   *)
(* fallback strings (src/services/storage.ts:113-149).                     *)
InsightTexts ==
    {"coaching points",
     "Could not generate insights.",
     "AI Coach is unavailable (Missing API Key). Please ensure process.env.API_KEY is set.",
     "An error occurred while contacting the AI Coach."}

(* What can happen to a getCoachingInsights call: there is no API key, the *)
(* model answers with text, it answers with no text, or creating the       *)
(* client or the generateContent call throws.                              *)
ApiOutcomes == {"missing key", "text", "no text", "error"}

(* getCoachingInsights(play): what its promise settles to, Some(string)    *)
(* when it is fulfilled and None when it is rejected                       *)
(* (getCoachingInsightsUncaught: the function without its try/catch).      *)
getCoachingInsightsUncaught(outcome) ==
    CASE outcome = "missing key" ->
            Some("AI Coach is unavailable (Missing API Key). Please ensure process.env.API_KEY is set.")
      [] outcome = "text"    -> Some("coaching points")
      [] outcome = "no text" -> Some("Could not generate insights.")
      [] outcome = "error"   -> None
getCoachingInsights(outcome) ==
    CASE outcome = "missing key" ->
            Some("AI Coach is unavailable (Missing API Key). Please ensure process.env.API_KEY is set.")
      [] outcome = "text"    -> Some("coaching points")
      [] outcome = "no text" -> Some("Could not generate insights.")
      [] outcome = "error"   -> Some("An error occurred while contacting the AI Coach.")

(* isLoadingAI: true from setIsLoadingAI(true) to setIsLoadingAI(false)    *)
isLoadingAI == IsSome(pendingInsights)

(* handleGenerateInsights() up to its await: the button is disabled while  *)
(* isLoadingAI; the continuation closes over the currentPlay of the render *)
(* the click happened in.                                                  *)
handleGenerateInsights ==
    /\ pendingInsights = None
    /\ Len(notes) < MaxNotes
    /\ pendingInsights' = Some([play |-> currentPlay, notes |-> notes,
                                settled |-> FALSE])
    /\ ev' = Event("askInsights", "null", None)
    /\ UNCHANGED <<currentPlay, selectedPlayerId, notes, storage, svgCTM,
                   readOnly, captured>>
    /\ FieldUntouched

GenerateInsights ==
    /\ EventAllowed
    /\ handleGenerateInsights
    /\ CountEvent

(* The promise of getCoachingInsights settles. Fulfilled, the continuation *)
(* of handleGenerateInsights runs: setCurrentPlay({ ...currentPlay, notes: *)
(* ... + insights }) with the currentPlay it closed over, then             *)
(* setIsLoadingAI(false). Notes are a list of paragraphs, joined by a      *)
(* blank line in the source. Rejected, the continuation never runs.        *)
InsightsResolved ==
    /\ EventAllowed
    /\ IsSome(pendingInsights)
    /\ ~Get(pendingInsights).settled
    /\ \E outcome \in ApiOutcomes :
          LET insights == getCoachingInsights(outcome) IN
          IF IsSome(insights)
          THEN /\ notes' = Append(Get(pendingInsights).notes, Get(insights))
               /\ ev' = [Event("insights", "null", None) EXCEPT
                            !.text = Get(insights)]
               /\ currentPlay' = Get(pendingInsights).play
               /\ pendingInsights' = None
          ELSE /\ ev' = Event("insightsRejected", "null", None)
               /\ pendingInsights' =
                     Some([Get(pendingInsights) EXCEPT !.settled = TRUE])
               /\ UNCHANGED <<notes, currentPlay>>
    /\ UNCHANGED <<selectedPlayerId, storage, svgCTM,
                   readOnly, captured>>
    /\ FieldUntouched
    /\ CountEvent

-----------------------------------------------------------------------------
(* Field with a pan/zoom viewport (src/unnamed/part_001)                    *)
(*                                                                          *)
(* Numbers. The source computes in doubles. Here zoom is kept in            *)
(* thousandths (ZOOM_UNIT is zoom 1) and coordinates in whole model units;  *)
(* each handler's expression is evaluated exactly on integers and rounded   *)
(* once to that grid (RoundDiv), where the source rounds to a double.       *)

ZOOM_UNIT == 1000
MIN_ZOOM == 600
MAX_ZOOM == 2500
MaxViewEvents == 4
PressesIn == 9
PressesOut == 4

(* a / b rounded to the nearest integer, b > 0 *)
RoundDiv(a, b) == (2 * a + b) \div (2 * b)

Vp(x, y, zoom) == [x |-> x, y |-> y, zoom |-> zoom]

(* clampViewport(candidate); width = FIELD_WIDTH / candidate.zoom, so       *)
(* maxX = FIELD_WIDTH - width + FIELD_WIDTH * 0.25                          *)
(*      = (5/4 FIELD_WIDTH * zoom - FIELD_WIDTH) / zoom                     *)
(* clampViewportSoft is the rubber-band variant, which gives back half of   *)
(* the excess over the far bound instead of none of it.                     *)
clampViewportSoft(candidate) ==
    LET minX == -(FIELD_WIDTH \div 4)
        maxX == RoundDiv(5 * FIELD_WIDTH * candidate.zoom
                           - 4 * FIELD_WIDTH * ZOOM_UNIT, 4 * candidate.zoom)
        minY == -(FIELD_HEIGHT \div 4)
        maxY == RoundDiv(5 * FIELD_HEIGHT * candidate.zoom
                           - 4 * FIELD_HEIGHT * ZOOM_UNIT, 4 * candidate.zoom)
        soft(v, lo, hi) == IF Max(v, lo) > hi THEN hi + (Max(v, lo) - hi) \div 2
                           ELSE Max(v, lo)
    IN  Vp(soft(candidate.x, minX, maxX), soft(candidate.y, minY, maxY),
           candidate.zoom)
clampViewport(candidate) ==
    LET minX == -(FIELD_WIDTH \div 4)
        maxX == RoundDiv(5 * FIELD_WIDTH * candidate.zoom
                           - 4 * FIELD_WIDTH * ZOOM_UNIT, 4 * candidate.zoom)
        minY == -(FIELD_HEIGHT \div 4)
        maxY == RoundDiv(5 * FIELD_HEIGHT * candidate.zoom
                           - 4 * FIELD_HEIGHT * ZOOM_UNIT, 4 * candidate.zoom)
    IN  Vp(Min(Max(candidate.x, minX), maxX), Min(Max(candidate.y, minY), maxY),
           candidate.zoom)

(* setViewportClamped(updater), given updater(prev); setViewportUnclamped   *)
(* is plain setViewport.                                                    *)
setViewportUnclamped(candidate) == viewport' = candidate
setViewportClamped(candidate) == viewport' = clampViewport(candidate)

(* getSvgPoint under the viewBox of the current render: the screen matrix   *)
(* of the svg has a = CTM.a * zoom and e = CTM.e - viewport.x * a.          *)
getSvgPointV(c) ==
    IF ~svgCTM THEN Pt(0, 0)
    ELSE
    Pt(viewport.x + RoundDiv((c.clientX - CTM.e) * ZOOM_UNIT, CTM.a * viewport.zoom),
       viewport.y + RoundDiv((c.clientY - CTM.f) * ZOOM_UNIT, CTM.d * viewport.zoom))

(* The screen position of a model point under the current viewBox *)
ToClientV(point) ==
    [clientX |-> CTM.e + RoundDiv((point.x - viewport.x) * CTM.a * viewport.zoom, ZOOM_UNIT),
     clientY |-> CTM.f + RoundDiv((point.y - viewport.y) * CTM.d * viewport.zoom, ZOOM_UNIT)]

NoInteractionV(startViewport) ==
    [pointerId |-> "null", type |-> "null", playerId |-> "",
     startPoint |-> None, startViewport |-> startViewport, moved |-> FALSE]

(* History record of a viewport update: the focal model point (None if the  *)
(* update has none), the viewport before it and the candidate handed to     *)
(* clampViewport.                                                           *)
ViewChange(focus, prev, candidate) ==
    Some([focus |-> focus, prev |-> prev, cand |-> candidate])

(* handlePointerDown(e, player?) *)
handlePointerDownV(pid, target, c) ==
    LET point == getSvgPointV(c) IN
    /\ \/ /\ target.kind = "player"
          /\ selectedPlayerId' = Some(target.id)
          /\ isDragging' = TRUE
          /\ vInteraction' = [pointerId |-> pid, type |-> "player",
                              playerId |-> target.id,
                              startPoint |-> Some(point),
                              startViewport |-> viewport, moved |-> FALSE]
       \/ /\ target.kind = "field"
          /\ vInteraction' = [pointerId |-> pid, type |-> "pan",
                              playerId |-> "",
                              startPoint |-> Some(point),
                              startViewport |-> viewport, moved |-> FALSE]
          /\ UNCHANGED <<selectedPlayerId, isDragging>>
    /\ ev' = Event("down", pid, None)
    /\ calls' = <<>>
    /\ written' = {}
    /\ UNCHANGED <<currentPlay, interaction, pendingFrame, latestPoint,
                   pendingRouteFrame, dragTrail, viewport, scheduled, batch,
                   routeBatch>>

TargetClientPtsV(target) ==
    LET player == Get(FindPlayer(currentPlay, target.id)) IN
    IF target.kind = "player" THEN {ToClientV(Pt(player.x, player.y))}
    ELSE ClientPts

PointerDownV ==
    /\ EventAllowed
    /\ \E pid \in PointerIds, target \in PlayerTargets \cup {FieldTarget} :
          \E c \in TargetClientPtsV(target) : handlePointerDownV(pid, target, c)
    /\ UNCHANGED <<mounted, pressed>>
    /\ CountEvent
    /\ UNCHANGED <<notes, otherVars>>

(* handlePointerMove(e) *)
handlePointerMoveV(pid, c) ==
    LET point == getSvgPointV(c)
        start == vInteraction.startViewport
        deltaX == point.x - Get(vInteraction.startPoint).x
        deltaY == point.y - Get(vInteraction.startPoint).y
        candidate == Vp(start.x - deltaX, start.y - deltaY, start.zoom)
    IN
    /\ calls' = <<>>
    /\ written' = {}
    /\ scheduled' = IF vInteraction.pointerId = pid /\ vInteraction.type = "player"
                    THEN [scheduled EXCEPT
                             ![vInteraction.playerId] = Some(ClampDrag(point))]
                    ELSE scheduled
    /\ \/ /\ (vInteraction.pointerId # pid \/ vInteraction.type = "null")
          /\ ev' = Event("move", pid, None)
          /\ UNCHANGED <<vInteraction, pendingFrame, latestPoint, batch, viewport>>
       \/ /\ vInteraction.pointerId = pid
          /\ vInteraction.type = "player"
          /\ Len(dragTrail) < MaxTrail
          /\ ev' = Event("move", pid, None)
          /\ vInteraction' = [vInteraction EXCEPT !.moved = TRUE]
          /\ schedulePlayerUpdate(vInteraction.playerId, ClampDrag(point))
          /\ batch' = [n |-> batch.n + 1, last |-> Some(ClampDrag(point)),
                        raw |-> Some(point), index |-> None]
          /\ UNCHANGED viewport
       \/ /\ vInteraction.pointerId = pid
          /\ vInteraction.type = "pan"
          /\ ev' = [Event("pan", pid, None) EXCEPT
                       !.view = ViewChange(None, viewport, candidate),
                       !.client = Some(c)]
          /\ vInteraction' = [vInteraction EXCEPT !.moved = TRUE]
          /\ setViewportClamped(candidate)
          /\ UNCHANGED <<pendingFrame, latestPoint, batch>>
    /\ UNCHANGED <<currentPlay, selectedPlayerId, interaction, pendingRouteFrame,
                   dragTrail, isDragging, routeBatch>>

PointerMoveV ==
    /\ EventAllowed
    /\ \E pid \in PointerIds, c \in ClientPts : handlePointerMoveV(pid, c)
    /\ UNCHANGED <<mounted, pressed>>
    /\ CountEvent
    /\ UNCHANGED <<notes, otherVars>>

(* handlePointerUp(e); also the svg's onPointerLeave handler *)
handlePointerUpV(pid, c) ==
    LET point == getSvgPointV(c)
        currentPlayer == FindPlayer(currentPlay, Get(selectedPlayerId))
        isTap == /\ vInteraction.type = "pan"
                 /\ ~vInteraction.moved
                 /\ IsSome(selectedPlayerId)
        extends == isTap /\ CanExtend(currentPlayer)
        newPoint == ClampTap(point)
        updated == [Get(currentPlayer) EXCEPT
                        !.route = Append(Get(currentPlayer).route, newPoint)]
    IN
    /\ ev' = [Event("up", pid, Some(point)) EXCEPT
                 !.pre = IF vInteraction.pointerId = pid
                         THEN [sel |-> selectedPlayerId,
                               itype |-> vInteraction.type,
                               moved |-> vInteraction.moved]
                         ELSE NoPre]
    /\ \/ /\ vInteraction.pointerId # pid
          /\ calls' = <<>>
          /\ written' = {}
          /\ UNCHANGED <<vInteraction, isDragging, dragTrail, currentPlay,
                         selectedPlayerId>>
       \/ /\ vInteraction.pointerId = pid
          /\ extends => Len(Get(currentPlayer).route) < MaxRoute
          /\ IF vInteraction.type = "player"
             THEN isDragging' = FALSE /\ dragTrail' = <<>>
             ELSE UNCHANGED <<isDragging, dragTrail>>
          /\ IF extends
             THEN /\ calls' = <<updated>>
                  /\ written' = {newPoint}
                  /\ currentPlay' = handleUpdatePlayer(currentPlay, updated)
                  /\ UNCHANGED selectedPlayerId
             ELSE /\ calls' = <<>>
                  /\ written' = {}
                  /\ selectedPlayerId' = IF isTap THEN None ELSE selectedPlayerId
                  /\ UNCHANGED currentPlay
          /\ vInteraction' = NoInteractionV(viewport)
    /\ UNCHANGED <<interaction, pendingFrame, latestPoint, pendingRouteFrame,
                   viewport, scheduled, batch, routeBatch>>

PointerUpV ==
    /\ EventAllowed
    /\ \E pid \in PointerIds, c \in ClientPts : handlePointerUpV(pid, c)
    /\ UNCHANGED <<mounted, pressed>>
    /\ CountEvent
    /\ UNCHANGED <<notes, otherVars>>

(* The part of a viewport update that touches nothing but the viewport *)
ViewOnly ==
    /\ calls' = <<>>
    /\ written' = {}
    /\ UNCHANGED <<currentPlay, selectedPlayerId, interaction, vInteraction,
                   pendingFrame, latestPoint, pendingRouteFrame, dragTrail,
                   isDragging, mounted, pressed, scheduled, batch, routeBatch>>

(* Math.min(2.5, Math.max(0.6, prev.zoom * zoomDelta)), zoomDelta 1.08 for  *)
(* direction 1 and 0.92 for direction -1                                    *)
WheelZoomUnbounded(zoom, direction) ==
    RoundDiv(zoom * (IF direction > 0 THEN 27 ELSE 23), 25)
WheelZoom(zoom, direction) ==
    Min(MAX_ZOOM, Max(MIN_ZOOM,
        RoundDiv(zoom * (IF direction > 0 THEN 27 ELSE 23), 25)))

(* focusPoint.x - scaleX * newWidth with scaleX = (focusPoint.x - prev.x) / *)
(* prevWidth: the origin coordinate that keeps focus at its screen position *)
(* (ZoomOriginKept: the origin left where it was).                          *)
ZoomOriginKept(focus, origin, prevZoom, newZoom) == origin
ZoomOrigin(focus, origin, prevZoom, newZoom) ==
    RoundDiv(focus * newZoom - (focus - origin) * prevZoom, newZoom)

(* handleWheel(e): direction is 1 for e.deltaY < 0, else -1 *)
handleWheel(direction, c) ==
    LET focusPoint == getSvgPointV(c)
        prev == viewport
        newZoom == WheelZoom(prev.zoom, direction)
        candidate == Vp(ZoomOrigin(focusPoint.x, prev.x, prev.zoom, newZoom),
                        ZoomOrigin(focusPoint.y, prev.y, prev.zoom, newZoom),
                        newZoom)
    IN
    /\ setViewportClamped(candidate)
    /\ ev' = [Event("wheel", "null", Some(focusPoint)) EXCEPT
                 !.view = ViewChange(Some(focusPoint), prev, candidate)]
    /\ ViewOnly

Wheel ==
    /\ EventAllowed
    /\ \E direction \in {1, -1}, c \in ClientPts : handleWheel(direction, c)
    /\ CountEvent
    /\ UNCHANGED <<notes, otherVars>>

(* The "+" button: prev => ({ ...prev, zoom: Math.min(2.5, prev.zoom * 1.1) }) *)
ZoomInUnbounded(prev) == [prev EXCEPT !.zoom = RoundDiv(prev.zoom * 11, 10)]
ZoomIn(prev) ==
    [prev EXCEPT !.zoom = Min(MAX_ZOOM, RoundDiv(prev.zoom * 11, 10))]
ZoomInButton ==
    /\ EventAllowed
    /\ setViewportClamped(ZoomIn(viewport))
    /\ ev' = [Event("zoomIn", "null", None) EXCEPT
                 !.view = ViewChange(None, viewport, ZoomIn(viewport))]
    /\ ViewOnly
    /\ CountEvent
    /\ UNCHANGED <<notes, otherVars>>

(* The "-" button: prev => ({ ...prev, zoom: Math.max(0.6, prev.zoom / 1.1) }) *)
ZoomOutUnbounded(prev) == [prev EXCEPT !.zoom = RoundDiv(prev.zoom * 10, 11)]
ZoomOut(prev) ==
    [prev EXCEPT !.zoom = Max(MIN_ZOOM, RoundDiv(prev.zoom * 10, 11))]
ZoomOutButton ==
    /\ EventAllowed
    /\ setViewportClamped(ZoomOut(viewport))
    /\ ev' = [Event("zoomOut", "null", None) EXCEPT
                 !.view = ViewChange(None, viewport, ZoomOut(viewport))]
    /\ ViewOnly
    /\ CountEvent
    /\ UNCHANGED <<notes, otherVars>>

(* The "Reset View" button: setViewport({ x: 0, y: 0, zoom: 1 }) *)
ResetViewButton ==
    /\ EventAllowed
    /\ viewport' = Vp(0, 0, ZOOM_UNIT)
    /\ ev' = Event("reset", "null", None)
    /\ ViewOnly
    /\ CountEvent
    /\ UNCHANGED <<notes, otherVars>>

-----------------------------------------------------------------------------
(* The editor opened on a play: the centre of createEmptyPlay and one       *)
(* defender as handleAddDefender creates it.                                *)
InitialPlay ==
    << [id |-> "p2", label |-> "C", role |-> OFFENSE, x |-> 50, y |-> 60,
        color |-> "#2563eb", route |-> <<>>],
       [id |-> "d1", label |-> "D", role |-> DEFENSE, x |-> 50, y |-> 30,
        color |-> "#dc2626", route |-> <<>>] >>

(* useState<ViewportState>({ x: 0, y: 0, zoom: 1 }) *)
InitialViewport == Vp(0, 0, ZOOM_UNIT)

(* The ids of the tokens of the play *)
TokenIds == {InitialPlay[i].id : i \in 1..Len(InitialPlay)}

Init ==
    /\ currentPlay = InitialPlay
    /\ selectedPlayerId = None
    /\ interaction = NoInteraction
    /\ pendingFrame = None
    /\ latestPoint = None
    /\ pendingRouteFrame = None
    /\ dragTrail = <<>>
    /\ isDragging = FALSE
    /\ viewport = InitialViewport
    /\ vInteraction = NoInteractionV(InitialViewport)
    /\ mounted = TRUE
    /\ notes = <<>>
    /\ pendingInsights = None
    /\ storage = None
    /\ svgCTM = TRUE
    /\ readOnly = FALSE
    /\ captured = {}
    /\ pressed = {}
    /\ scheduled = [id \in TokenIds |-> None]
    /\ ev = Event("init", "null", None)
    /\ calls = <<>>
    /\ written = {}
    /\ batch = NoBatch
    /\ routeBatch = NoBatch
    /\ sinceFrame = 0
    /\ nOps = 0

(* An editing session on Field.tsx of at most MaxEvents steps. *)
(* Pointer events reach the handlers, and the editor's buttons are there,  *)
(* while the Field is mounted; a frame callback runs whenever one is        *)
(* pending.                                                                 *)
Next ==
    \/ nOps < MaxEvents /\ mounted /\ PointerDown
    \/ nOps < MaxEvents /\ mounted /\ PointerMove
    \/ nOps < MaxEvents /\ mounted /\ PointerUp
    \/ nOps < MaxEvents /\ mounted /\ PointerLeave
    \/ nOps < MaxEvents /\ PlayerFrameCallback
    \/ nOps < MaxEvents /\ RouteFrameCallback
    \/ nOps < MaxEvents /\ mounted /\ ApplyPreset
    \/ nOps < MaxEvents /\ mounted /\ DeletePlayer
    \/ nOps < MaxEvents /\ mounted /\ ClearRoutes
    \/ nOps < MaxEvents /\ Unmount

Spec == Init /\ [][Next]_vars

(* A session of at most MaxFairEvents steps in which a pending frame        *)
(* callback is never left waiting: the browser runs it before the next      *)
(* repaint, whatever else happens or does not happen.                       *)
NextFair ==
    \/ nOps < MaxFairEvents /\ mounted /\ PointerDown
    \/ nOps < MaxFairEvents /\ mounted /\ PointerMove
    \/ nOps < MaxFairEvents /\ mounted /\ PointerUp
    \/ nOps < MaxFairEvents /\ mounted /\ PointerLeave
    \/ nOps < MaxFairEvents /\ mounted /\ ApplyPreset
    \/ nOps < MaxFairEvents /\ mounted /\ DeletePlayer
    \/ nOps < MaxFairEvents /\ mounted /\ ClearRoutes
    \/ nOps < MaxFairEvents /\ Unmount
    \/ PlayerFrameCallback
    \/ RouteFrameCallback

SpecFair ==
    /\ Init
    /\ [][NextFair]_vars
    /\ WF_vars(PlayerFrameCallback)
    /\ WF_vars(RouteFrameCallback)

(* The viewport after the first k presses of one zoom button on a freshly  *)
(* mounted Field (zoomIn: the "+" button, else the "-" button).            *)
RECURSIVE Pressed(_, _)
Pressed(zoomIn, k) ==
    IF k = 0 THEN InitialViewport
    ELSE clampViewport(IF zoomIn THEN ZoomIn(Pressed(zoomIn, k - 1))
                       ELSE ZoomOut(Pressed(zoomIn, k - 1)))

(* A session on the viewport Field opens with the view as constructed, or   *)
(* zoomed in by PressesIn presses of "+", or zoomed out by PressesOut       *)
(* presses of "-"; nothing else has happened yet.                           *)
InitView ==
    /\ currentPlay = InitialPlay
    /\ selectedPlayerId = None
    /\ interaction = NoInteraction
    /\ pendingFrame = None
    /\ latestPoint = None
    /\ pendingRouteFrame = None
    /\ dragTrail = <<>>
    /\ isDragging = FALSE
    /\ viewport \in {InitialViewport, Pressed(TRUE, PressesIn),
                      Pressed(FALSE, PressesOut)}
    /\ vInteraction = NoInteractionV(InitialViewport)
    /\ mounted = TRUE
    /\ notes = <<>>
    /\ pendingInsights = None
    /\ storage = None
    /\ svgCTM = TRUE
    /\ readOnly = FALSE
    /\ captured = {}
    /\ pressed = {}
    /\ scheduled = [id \in TokenIds |-> None]
    /\ ev = Event("init", "null", None)
    /\ calls = <<>>
    /\ written = {}
    /\ batch = NoBatch
    /\ routeBatch = NoBatch
    /\ sinceFrame = 0
    /\ nOps = 0

(* and goes on for at most MaxViewEvents steps. *)
NextView ==
    \/ nOps < MaxViewEvents /\ PointerDownV
    \/ nOps < MaxViewEvents /\ PointerMoveV
    \/ nOps < MaxViewEvents /\ PointerUpV
    \/ nOps < MaxViewEvents /\ PlayerFrameCallback
    \/ nOps < MaxViewEvents /\ Wheel
    \/ nOps < MaxViewEvents /\ ZoomInButton
    \/ nOps < MaxViewEvents /\ ZoomOutButton
    \/ nOps < MaxViewEvents /\ ResetViewButton

SpecView == InitView /\ [][NextView]_vars

(* clampViewport applied to a candidate of any origin and zoom, as a       *)
(* caller may hand it one.                                                 *)
CandidateXs == {-200, -25, 0, 30, 200}
CandidateYs == {-200, 0, 200}
CandidateZooms == {100, 599, MIN_ZOOM, ZOOM_UNIT, MAX_ZOOM, 2501, 9000}

InitClamp ==
    /\ currentPlay = InitialPlay
    /\ selectedPlayerId = None
    /\ interaction = NoInteraction
    /\ pendingFrame = None
    /\ latestPoint = None
    /\ pendingRouteFrame = None
    /\ dragTrail = <<>>
    /\ isDragging = FALSE
    /\ viewport = InitialViewport
    /\ vInteraction = NoInteractionV(InitialViewport)
    /\ mounted = TRUE
    /\ notes = <<>>
    /\ pendingInsights = None
    /\ storage = None
    /\ svgCTM = TRUE
    /\ readOnly = FALSE
    /\ captured = {}
    /\ pressed = {}
    /\ scheduled = [id \in TokenIds |-> None]
    /\ \E x \in CandidateXs, y \in CandidateYs, zoom \in CandidateZooms :
          ev = [Event("candidate", "null", None) EXCEPT
                   !.view = ViewChange(None, InitialViewport, Vp(x, y, zoom))]
    /\ calls = <<>>
    /\ written = {}
    /\ batch = NoBatch
    /\ routeBatch = NoBatch
    /\ sinceFrame = 0
    /\ nOps = 0

(* setViewportClamped(() => candidate) *)
ClampCandidate ==
    /\ ev.type = "candidate"
    /\ setViewportClamped(Get(ev.view).cand)
    /\ ev' = [ev EXCEPT !.type = "clamp"]
    /\ ViewOnly
    /\ CountEvent
    /\ UNCHANGED <<notes, otherVars>>

NextClamp == ClampCandidate

SpecClamp == InitClamp /\ [][NextClamp]_vars

-----------------------------------------------------------------------------
(* The editor opened on a play of the playbook (src/services/storage.ts)    *)

Offense(id, label, x, y, route) ==
    [id |-> id, label |-> label, role |-> OFFENSE, x |-> x, y |-> y,
     color |-> "#2563eb", route |-> route]

(* EXAMPLE_PLAYS: id, name and players of each *)
EXAMPLE_PLAYS ==
    << [id |-> "example-1", name |-> "Flood Right",
        notes |-> <<"Overload the right side of the field. QB reads high to low.">>,
        players |->
          << Offense("p1", "QB", 50, 80, <<>>),
             Offense("p2", "C", 50, 60, <<Pt(50, 50), Pt(40, 45)>>),
             Offense("p3", "WR1", 85, 60, <<Pt(85, 10)>>),
             Offense("p4", "WR2", 75, 60, <<Pt(75, 40), Pt(90, 40)>>),
             Offense("p5", "RB", 60, 80, <<Pt(90, 70)>>) >>],
       [id |-> "example-2", name |-> "Mesh",
        notes |-> <<"Inside receivers cross close enough to high-five.">>,
        players |->
          << Offense("p1", "QB", 50, 80, <<>>),
             Offense("p2", "C", 50, 60, <<Pt(50, 50), Pt(50, 40)>>),
             Offense("p3", "SL", 35, 60, <<Pt(35, 55), Pt(65, 55)>>),
             Offense("p4", "SR", 65, 60, <<Pt(65, 58), Pt(35, 58)>>),
             Offense("p5", "WR", 10, 60, <<Pt(10, 20)>>) >>] >>

(* createEmptyPlay(), with the ids generateId() happened to give *)
createEmptyPlay ==
    [id |-> "new-1", name |-> "New Play", notes |-> <<>>,
     players |->
       << Offense("n1", "QB", 50, 80, <<>>),
          Offense("n2", "C", 50, 60, <<>>),
          Offense("n3", "L", 20, 60, <<>>),
          Offense("n4", "R", 80, 60, <<>>),
          Offense("n5", "RB", 40, 80, <<>>) >>]

(* InitialPlay after its offensive token was dragged to (x, y) *)
PlacedPlay(x, y) == [InitialPlay EXCEPT ![1].x = x, ![1].y = y]
PlacedYs == {MARGIN, 30, 60, FIELD_HEIGHT - MARGIN}

(* The plays an editing session can open on: the examples, a new play, or  *)
(* a play whose offensive token stands anywhere a drag can put it.         *)
OpenedPlays ==
    {EXAMPLE_PLAYS[i].players : i \in 1..Len(EXAMPLE_PLAYS)}
    \cup {createEmptyPlay.players}
    \cup {PlacedPlay(x, y) : x \in MARGIN..(FIELD_WIDTH - MARGIN), y \in PlacedYs}

MaxEditorEvents == 3

InitEditor ==
    /\ currentPlay \in OpenedPlays
    /\ selectedPlayerId = None
    /\ interaction = NoInteraction
    /\ pendingFrame = None
    /\ latestPoint = None
    /\ pendingRouteFrame = None
    /\ dragTrail = <<>>
    /\ isDragging = FALSE
    /\ viewport = InitialViewport
    /\ vInteraction = NoInteractionV(InitialViewport)
    /\ mounted = TRUE
    /\ notes = <<>>
    /\ pendingInsights = None
    /\ storage = None
    /\ svgCTM = TRUE
    /\ readOnly = FALSE
    /\ captured = {}
    /\ pressed = {}
    /\ scheduled = [id \in {currentPlay[i].id : i \in 1..Len(currentPlay)} |-> None]
    /\ ev = Event("init", "null", None)
    /\ calls = <<>>
    /\ written = {}
    /\ batch = NoBatch
    /\ routeBatch = NoBatch
    /\ sinceFrame = 0
    /\ nOps = 0

(* The user presses on tokens, which selects them, and uses the Quick      *)
(* Routes and Clear Routes buttons, for at most MaxEditorEvents steps.     *)
NextEditor ==
    \/ nOps < MaxEditorEvents /\ PointerDown
    \/ nOps < MaxEditorEvents /\ ApplyAnyPreset
    \/ nOps < MaxEditorEvents /\ ClearRoutes

SpecEditor == InitEditor /\ [][NextEditor]_vars

(* The tokens a drag can have scheduled a point for, once the play has the *)
(* tokens ids as well.                                                     *)
Tracked(ids) ==
    [id \in DOMAIN scheduled \cup ids |->
        IF id \in DOMAIN scheduled THEN scheduled[id] ELSE None]
PlayerIds(players) == {players[i].id : i \in 1..Len(players)}

(* The editor opens on play: setCurrentPlay(play); setViewMode(EDITOR).    *)
(* The Field is mounted if it was not; the selection is not touched. The   *)
(* event records the tokens the program has just put on the surface.       *)
OpenEditor(type, play) ==
    /\ currentPlay' = play.players
    /\ notes' = play.notes
    /\ mounted' = TRUE
    /\ scheduled' = Tracked(PlayerIds(play.players))
    /\ ev' = [Event(type, "null", None) EXCEPT !.result = Some(play.players)]
    /\ calls' = <<>>
    /\ written' = {}
    /\ UNCHANGED <<selectedPlayerId, fieldVars, viewVars, pressed, batch,
                   routeBatch>>

(* handleCreatePlay(): the "New Play" buttons of the playbook view and of   *)
(* the menu                                                                 *)
handleCreatePlay == OpenEditor("create", createEmptyPlay)
CreatePlay ==
    /\ EventAllowed
    /\ handleCreatePlay
    /\ CountEvent
    /\ UNCHANGED otherVars

(* handleEditPlay(play): a click on a card of the playbook view, which      *)
(* lists the stored plays (the examples, when nothing is stored)            *)
handleEditPlay(play) == ~mounted /\ OpenEditor("edit", play)
EditPlay ==
    /\ EventAllowed
    /\ \E i \in 1..Len(EXAMPLE_PLAYS) : handleEditPlay(EXAMPLE_PLAYS[i])
    /\ CountEvent
    /\ UNCHANGED otherVars

(* handleAddDefender(); id is the string Math.random() happened to give,    *)
(* one of NewIds that no token of the play has.                             *)
NewIds == {"d2", "d3"}
handleAddDefender(id) ==
    LET newDefender == [id |-> id, label |-> "D", role |-> DEFENSE, x |-> 50,
                        y |-> 30, color |-> "#dc2626", route |-> <<>>]
    IN
    /\ id \notin PlayerIds(currentPlay)
    /\ currentPlay' = Append(currentPlay, newDefender)
    /\ scheduled' = Tracked({id})
    /\ ev' = [Event("addDefender", "null", None) EXCEPT
                 !.result = Some(<<newDefender>>)]
    /\ calls' = <<>>
    /\ written' = {}
    /\ UNCHANGED <<selectedPlayerId, fieldVars, viewVars, mounted, pressed,
                   batch, routeBatch>>
AddDefender ==
    /\ EventAllowed
    /\ \E id \in NewIds : handleAddDefender(id)
    /\ CountEvent
    /\ UNCHANGED <<notes, otherVars>>

(* The application from its start in the playbook view, where no play is   *)
(* open: the user creates or opens plays, goes back to the list (which      *)
(* unmounts the Field), presses tokens and the surface, removes the         *)
(* selected token and adds defenders, for at most MaxPlaybookEvents steps.  *)
MaxPlaybookEvents == 4

InitPlaybook ==
    /\ currentPlay = <<>>
    /\ selectedPlayerId = None
    /\ interaction = NoInteraction
    /\ pendingFrame = None
    /\ latestPoint = None
    /\ pendingRouteFrame = None
    /\ dragTrail = <<>>
    /\ isDragging = FALSE
    /\ viewport = InitialViewport
    /\ vInteraction = NoInteractionV(InitialViewport)
    /\ mounted = FALSE
    /\ notes = <<>>
    /\ pendingInsights = None
    /\ storage = None
    /\ svgCTM = TRUE
    /\ readOnly = FALSE
    /\ captured = {}
    /\ pressed = {}
    /\ scheduled = [id \in {} |-> None]
    /\ ev = Event("init", "null", None)
    /\ calls = <<>>
    /\ written = {}
    /\ batch = NoBatch
    /\ routeBatch = NoBatch
    /\ sinceFrame = 0
    /\ nOps = 0

NextPlaybook ==
    \/ nOps < MaxPlaybookEvents /\ CreatePlay
    \/ nOps < MaxPlaybookEvents /\ EditPlay
    \/ nOps < MaxPlaybookEvents /\ Unmount
    \/ nOps < MaxPlaybookEvents /\ mounted /\ PointerDown
    \/ nOps < MaxPlaybookEvents /\ mounted /\ PointerUp
    \/ nOps < MaxPlaybookEvents /\ mounted /\ DeletePlayer
    \/ nOps < MaxPlaybookEvents /\ mounted /\ AddDefender

SpecPlaybook == InitPlaybook /\ [][NextPlaybook]_vars

(* The owner of the Field renders it with another value of its readOnly    *)
(* prop.                                                                   *)
SetReadOnly ==
    /\ readOnly' = ~readOnly
    /\ ev' = Event("readOnly", "null", None)
    /\ UNCHANGED <<currentPlay, selectedPlayerId, notes, pendingInsights,
                   storage, svgCTM, captured>>
    /\ FieldUntouched
    /\ CountEvent

(* An editing session during which the read-only flag is switched, of at   *)
(* most MaxReadOnlyEvents steps.                                           *)
MaxReadOnlyEvents == 5

NextReadOnly ==
    \/ nOps < MaxReadOnlyEvents /\ SetReadOnly
    \/ nOps < MaxReadOnlyEvents /\ PointerDown
    \/ nOps < MaxReadOnlyEvents /\ PointerMove
    \/ nOps < MaxReadOnlyEvents /\ PointerUp
    \/ nOps < MaxReadOnlyEvents /\ PlayerFrameCallback

SpecReadOnly == Init /\ [][NextReadOnly]_vars

(* A session in which the coach types notes, presses tokens and asks for   *)
(* advisory text, of at most MaxInsightFairEvents steps of the coach. The   *)
(* promise of a call in flight settles sooner or later (the request gets   *)
(* its response or fails), whatever the coach does.                        *)
MaxInsightFairEvents == 3

NextInsightsFair ==
    \/ nOps < MaxInsightFairEvents /\ PointerDown
    \/ nOps < MaxInsightFairEvents /\ DeletePlayer
    \/ nOps < MaxInsightFairEvents /\ TypeNotes
    \/ nOps < MaxInsightFairEvents /\ GenerateInsights
    \/ InsightsResolved

SpecInsightsFair ==
    /\ Init
    /\ [][NextInsightsFair]_vars
    /\ WF_vars(InsightsResolved)

(* An editing session on a play with a defender, in which the user also     *)
(* adds defenders, of at most MaxDefenseEvents steps.                       *)
MaxDefenseEvents == 5

NextDefense ==
    \/ nOps < MaxDefenseEvents /\ PointerDown
    \/ nOps < MaxDefenseEvents /\ PointerMove
    \/ nOps < MaxDefenseEvents /\ PointerUp
    \/ nOps < MaxDefenseEvents /\ PlayerFrameCallback
    \/ nOps < MaxDefenseEvents /\ RouteFrameCallback
    \/ nOps < MaxDefenseEvents /\ ApplyPreset
    \/ nOps < MaxDefenseEvents /\ AddDefender

SpecDefense == Init /\ [][NextDefense]_vars

-----------------------------------------------------------------------------
(* The storage service (src/services/storage.ts)                           *)
(*                                                                         *)
(* A JavaScript value is an array of plays, null, an object that is not an *)
(* array, or a number. A stored text either parses to a value, or does not *)
(* parse; the empty text does not parse and is falsy.                      *)

JsArray(items) == [type |-> "array", items |-> items]
JsNull == [type |-> "null", items |-> <<>>]
JsObject == [type |-> "object", items |-> <<>>]
JsNumber == [type |-> "number", items |-> <<>>]

Garbage == [parses |-> FALSE, empty |-> FALSE, value |-> JsNull]
EmptyText == [parses |-> FALSE, empty |-> TRUE, value |-> JsNull]
JSONstringify(v) == [parses |-> TRUE, empty |-> FALSE, value |-> v]
(* JSON.parse(text): the value, or a SyntaxError *)
JSONparse(text) ==
    IF text.parses THEN [threw |-> FALSE, value |-> text.value]
    ELSE [threw |-> TRUE, value |-> JsNull]

(* getPlays() on the stored item st: the value returned and the item       *)
(* stored afterwards.                                                      *)
getPlays(st) ==
    IF st = None \/ Get(st).empty
    THEN [value |-> JsArray(EXAMPLE_PLAYS),
          stored |-> Some(JSONstringify(JsArray(EXAMPLE_PLAYS)))]
    ELSE IF JSONparse(Get(st)).threw
         THEN [value |-> JsArray(<<>>), stored |-> st]
         ELSE [value |-> JSONparse(Get(st)).value, stored |-> st]

(* What a storage call leaves alone: the editor *)
EditorUntouched ==
    /\ UNCHANGED <<currentPlay, selectedPlayerId, notes, pendingInsights, svgCTM,
                   readOnly, captured>>
    /\ FieldUntouched

(* setPlays(getPlays()), the effect of the playbook view *)
GetPlays ==
    /\ storage' = getPlays(storage).stored
    /\ ev' = [Event("getPlays", "null", None) EXCEPT
                 !.result = Some(getPlays(storage).value)]
    /\ EditorUntouched
    /\ CountEvent

(* plays.findIndex(p => p.id === play.id): 0 when there is none (the       *)
(* source's -1, indices here starting at 1)                                *)
findIndex(items, id) ==
    LET idx == {i \in 1..Len(items) : items[i].id = id}
    IN  IF idx = {} THEN 0 ELSE CHOOSE i \in idx : \A j \in idx : i <= j

(* savePlay(play); plays.findIndex is a TypeError when plays is not an     *)
(* array. The time stamps are left out.                                    *)
savePlay(play) ==
    LET plays == getPlays(storage).value
        index == findIndex(plays.items, play.id)
        saved == IF index > 0 THEN [plays.items EXCEPT ![index] = play]
                 ELSE Append(plays.items, play)
    IN
    IF plays.type # "array"
    THEN /\ storage' = getPlays(storage).stored
         /\ ev' = [Event("savePlay", "null", None) EXCEPT !.threw = TRUE]
    ELSE /\ storage' = Some(JSONstringify(JsArray(saved)))
         /\ ev' = Event("savePlay", "null", None)

(* The plays the editor saves: an example as it is and renamed, the other  *)
(* example and a new play.                                                 *)
SavedPlays ==
    {EXAMPLE_PLAYS[1], [EXAMPLE_PLAYS[1] EXCEPT !.name = "Flood Left"],
     EXAMPLE_PLAYS[2], createEmptyPlay}

(* handleSavePlay / handleDuplicatePlay *)
SavePlay ==
    /\ \E play \in SavedPlays : savePlay(play)
    /\ EditorUntouched
    /\ CountEvent

(* deletePlay(id); getPlays().filter is a TypeError when the value is not  *)
(* an array.                                                               *)
deletePlay(id) ==
    LET plays == getPlays(storage).value IN
    IF plays.type # "array"
    THEN /\ storage' = getPlays(storage).stored
         /\ ev' = [Event("deletePlay", "null", None) EXCEPT !.threw = TRUE]
    ELSE /\ storage' = Some(JSONstringify(JsArray(
                            SelectSeq(plays.items, LAMBDA p : p.id # id))))
         /\ ev' = Event("deletePlay", "null", None)

(* handleDeletePlay, confirmed *)
DeletePlay ==
    /\ \E play \in SavedPlays : deletePlay(play.id)
    /\ EditorUntouched
    /\ CountEvent

(* The item the browser holds under STORAGE_KEY when the app starts:       *)
(* nothing, a text that does not parse, a text that parses to something    *)
(* other than an array, or a list this service wrote.                      *)
StoredItems ==
    {None, Some(EmptyText), Some(Garbage), Some(JSONstringify(JsNull)),
     Some(JSONstringify(JsObject)), Some(JSONstringify(JsNumber)),
     Some(JSONstringify(JsArray(<<>>))),
     Some(JSONstringify(JsArray(EXAMPLE_PLAYS)))}

MaxStorageEvents == 3

InitStorage ==
    /\ currentPlay = InitialPlay
    /\ selectedPlayerId = None
    /\ interaction = NoInteraction
    /\ pendingFrame = None
    /\ latestPoint = None
    /\ pendingRouteFrame = None
    /\ dragTrail = <<>>
    /\ isDragging = FALSE
    /\ viewport = InitialViewport
    /\ vInteraction = NoInteractionV(InitialViewport)
    /\ mounted = TRUE
    /\ notes = <<>>
    /\ pendingInsights = None
    /\ storage \in StoredItems
    /\ svgCTM = TRUE
    /\ readOnly = FALSE
    /\ captured = {}
    /\ pressed = {}
    /\ scheduled = [id \in TokenIds |-> None]
    /\ ev = Event("init", "null", None)
    /\ calls = <<>>
    /\ written = {}
    /\ batch = NoBatch
    /\ routeBatch = NoBatch
    /\ sinceFrame = 0
    /\ nOps = 0

NextStorage ==
    \/ nOps < MaxStorageEvents /\ GetPlays
    \/ nOps < MaxStorageEvents /\ SavePlay
    \/ nOps < MaxStorageEvents /\ DeletePlay

SpecStorage == InitStorage /\ [][NextStorage]_vars

(* The svg loses or regains its screen transform (getScreenCTM() gives     *)
(* null for an element that is not rendered).                              *)
SurfaceTransformChanges ==
    /\ svgCTM' = ~svgCTM
    /\ ev' = Event("layout", "null", None)
    /\ UNCHANGED <<currentPlay, selectedPlayerId, notes, pendingInsights, storage,
                   readOnly, captured>>
    /\ FieldUntouched
    /\ CountEvent

(* An editing session of at most MaxDegenerateEvents steps during which    *)
(* the transform comes and goes.                                           *)
MaxDegenerateEvents == 5

NextDegenerate ==
    \/ nOps < MaxDegenerateEvents /\ SurfaceTransformChanges
    \/ nOps < MaxDegenerateEvents /\ PointerDown
    \/ nOps < MaxDegenerateEvents /\ PointerMove
    \/ nOps < MaxDegenerateEvents /\ PointerUp
    \/ nOps < MaxDegenerateEvents /\ PlayerFrameCallback

SpecDegenerate == Init /\ [][NextDegenerate]_vars

(* An editing session in which the coach also types notes and asks for     *)
(* advisory text, of at most MaxInsightEvents steps.                       *)
MaxInsightEvents == 4

NextInsights ==
    \/ nOps < MaxInsightEvents /\ PointerDown
    \/ nOps < MaxInsightEvents /\ PointerMove
    \/ nOps < MaxInsightEvents /\ PointerUp
    \/ nOps < MaxInsightEvents /\ PlayerFrameCallback
    \/ nOps < MaxInsightEvents /\ ApplyPreset
    \/ nOps < MaxInsightEvents /\ DeletePlayer
    \/ nOps < MaxInsightEvents /\ ClearRoutes
    \/ nOps < MaxInsightEvents /\ TypeNotes
    \/ nOps < MaxInsightEvents /\ GenerateInsights
    \/ nOps < MaxInsightEvents /\ InsightsResolved

SpecInsights == Init /\ [][NextInsights]_vars

(* A long token drag. It starts where pointer ptr1, pressed on the first   *)
(* token, has been moved to the same place TrailStart times, each move     *)
(* committed by its frame callback; the session goes on for at most        *)
(* MaxTrailEvents moves, frame callbacks and releases.                     *)
TrailStart == 8
MaxTrailEvents == 7

DragStart == ClampDrag(getSvgPointAssumed(ToClient(Pt(1, 79))))

RECURSIVE TrailOf(_, _)
TrailOf(point, k) ==
    IF k = 0 THEN <<>>
    ELSE LastN(Append(TrailOf(point, k - 1), point), TRAIL_MAX)

InitTrail ==
    LET player == InitialPlay[1] IN
    /\ currentPlay = handleUpdatePlayer(InitialPlay,
                         [player EXCEPT !.x = DragStart.x, !.y = DragStart.y])
    /\ selectedPlayerId = Some(player.id)
    /\ interaction = [pointerId |-> "ptr1", type |-> "player",
                      playerId |-> player.id, routeIndex |-> None,
                      startPoint |-> Some(Pt(player.x, player.y)),
                      moved |-> TRUE]
    /\ pendingFrame = None
    /\ latestPoint = Some(DragStart)
    /\ pendingRouteFrame = None
    /\ dragTrail = TrailOf(DragStart, TrailStart)
    /\ isDragging = TRUE
    /\ viewport = InitialViewport
    /\ vInteraction = NoInteractionV(InitialViewport)
    /\ mounted = TRUE
    /\ notes = <<>>
    /\ pendingInsights = None
    /\ storage = None
    /\ svgCTM = TRUE
    /\ readOnly = FALSE
    /\ captured = {"ptr1"}
    /\ pressed = {"ptr1"}
    /\ scheduled = [id \in TokenIds |->
                       IF id = player.id THEN Some(DragStart) ELSE None]
    /\ ev = Event("init", "null", None)
    /\ calls = <<>>
    /\ written = {}
    /\ batch = NoBatch
    /\ routeBatch = NoBatch
    /\ sinceFrame = 0
    /\ nOps = 0

NextTrail ==
    \/ nOps < MaxTrailEvents /\ DragMove
    \/ nOps < MaxTrailEvents /\ PlayerFrameCallback
    \/ nOps < MaxTrailEvents /\ PointerUp

SpecTrail == InitTrail /\ [][NextTrail]_vars

-----------------------------------------------------------------------------
(* Properties of the pointer state machine and the update batcher (Spec)   *)

InMargin(p) == p.x >= 2 /\ p.x <= 98 /\ p.y >= 2 /\ p.y <= 78

(* C1: every position the token-drag frame callback submits through        *)
(* onUpdatePlayer has x in [2, 98] and y in [2, 78], whatever the raw      *)
(* mapped point of the move events was; a raw point (150, 10) is committed *)
(* as (98, 10).                                                            *)
C1_DragPositionClamped ==
    ev.type = "frame" =>
        \A i \in 1..Len(calls) :
            /\ InMargin(calls[i])
            /\ ev.raw = Some(Pt(150, 10)) => calls[i].x = 98 /\ calls[i].y = 10

C1_Witness ==
    /\ ev.type = "frame"
    /\ ev.raw = Some(Pt(150, 10))
    /\ Len(calls) = 1
    /\ calls[1].x = 98 /\ calls[1].y = 10

(* C2: when the token-drag frame callback fires after N >= 1 move events   *)
(* and finds the dragged token in its play, it makes exactly one           *)
(* onUpdatePlayer call, and the call carries the clamped point of the last *)
(* of these move events.                                                   *)
C2_OneCallWithLastPoint ==
    (ev.type = "frame" /\ ev.n >= 1 /\ ev.found) =>
        /\ Len(calls) = 1
        /\ Pt(calls[1].x, calls[1].y) = Get(ev.point)

C2_Witness ==
    /\ ev.type = "frame"
    /\ ev.n >= 2
    /\ Len(calls) = 1
    /\ Pt(calls[1].x, calls[1].y) = Get(ev.point)
    /\ latestPoint = ev.point

(* C3: when the route frame callback fires after N >= 1 move events of a   *)
(* waypoint drag, it makes exactly one path update, and the waypoint at    *)
(* the dragged index is the clamped point of the last of these moves.      *)
C3_LastRouteMoveWins ==
    (ev.type = "routeFrame" /\ ev.n >= 1) =>
        /\ Len(calls) = 1
        /\ Get(ev.index) < Len(calls[1].route) =>
              calls[1].route[Get(ev.index) + 1] = Get(ev.point)

(* The selected player of the state, when there is one. *)
SelectedPlayer == FindPlayer(currentPlay, Get(selectedPlayerId))

(* A release that finds a field interaction of its pointer that has not    *)
(* moved: the step is a tap.                                               *)
TapStep ==
    /\ ev'.type = "up"
    /\ interaction.pointerId = ev'.pointerId
    /\ interaction.type = "field"
    /\ ~interaction.moved

C5_TapDeselects ==
    [][ (/\ TapStep
         /\ \/ selectedPlayerId = None
            \/ IsSome(SelectedPlayer) /\ Get(SelectedPlayer).role = DEFENSE)
        =>
        /\ calls' = <<>>
        /\ currentPlay' = currentPlay
        /\ selectedPlayerId' = None
      ]_vars

C5_Witness ==
    /\ ev.type = "up"
    /\ ev.pre = [sel |-> Some("d1"), itype |-> "field", moved |-> FALSE]
    /\ selectedPlayerId = None
    /\ calls = <<>>

(* C6: every token position and every path waypoint an operation writes    *)
(* (token drag, waypoint drag, tap-to-extend, template application) lies   *)
(* within [2, 98] x [2, 78].                                               *)
C6_WritesWithinMargin == \A p \in written : InMargin(p)

-----------------------------------------------------------------------------
(* Properties of the viewport (SpecView)                                    *)

(* C7: the zoom factor stays within [0.6, 2.5] through every wheel event,   *)
(* zoom button, pan and reset.                                              *)
C7_ZoomInRange ==
    viewport.zoom >= MIN_ZOOM /\ viewport.zoom <= MAX_ZOOM

(* A zoom-out held at the lower limit: the step would have left the range. *)
C7_Witness ==
    /\ ev.type \in {"zoomOut", "wheel"}
    /\ viewport.zoom = MIN_ZOOM
    /\ Get(ev.view).prev.zoom > MIN_ZOOM

(* A zoom-in held at the upper limit. *)
C7_WitnessUpper ==
    /\ ev.type \in {"zoomIn", "wheel"}
    /\ viewport.zoom = MAX_ZOOM
    /\ Get(ev.view).prev.zoom < MAX_ZOOM

(* (F - origin) * zoom, the screen offset of F, is the same under the two  *)
(* viewports up to the half grid step by which an origin is rounded.        *)
SameScreenPoint(F, before, after) ==
    LET dx == (F.x - after.x) * after.zoom - (F.x - before.x) * before.zoom
        dy == (F.y - after.y) * after.zoom - (F.y - before.y) * before.zoom
    IN  /\ 2 * dx <= after.zoom /\ 2 * dx >= -after.zoom
        /\ 2 * dy <= after.zoom /\ 2 * dy >= -after.zoom

(* C8 as stated: after every wheel zoom at focal point F, F is at the same *)
(* screen location under the resulting (clamped) viewport as before.        *)
C8_AnchorPreserved ==
    ev.type = "wheel" =>
        SameScreenPoint(Get(ev.view).focus[1], Get(ev.view).prev, viewport)

(* C8, amended: after a wheel zoom at focal point F whose recomputed origin *)
(* clampViewport leaves unchanged, F is at the same screen location as      *)
(* before; when the clamp moves the origin, the anchor moves with it.       *)
C8_AnchorPreservedUnlessClamped ==
    (ev.type = "wheel" /\ viewport = Get(ev.view).cand) =>
        SameScreenPoint(Get(ev.view).focus[1], Get(ev.view).prev, viewport)

(* A wheel zoom that changed the zoom about a focal point off the origin   *)
(* and was not moved by the clamp.                                          *)
C8_Witness ==
    /\ ev.type = "wheel"
    /\ viewport = Get(ev.view).cand
    /\ viewport.zoom # Get(ev.view).prev.zoom
    /\ Get(ev.view).focus[1].x # Get(ev.view).prev.x
    /\ Get(ev.view).focus[1].y # Get(ev.view).prev.y

(* C9: clampViewport is idempotent on every candidate the handlers hand to *)
(* it, and every reachable viewport is a fixed point of clampViewport.      *)
C9_ClampIdempotent ==
    /\ clampViewport(viewport) = viewport
    /\ IsSome(ev.view) =>
          clampViewport(clampViewport(Get(ev.view).cand))
             = clampViewport(Get(ev.view).cand)

(* A candidate that clampViewport had to move in both coordinates. *)
C9_Witness ==
    /\ IsSome(ev.view)
    /\ viewport = clampViewport(Get(ev.view).cand)
    /\ viewport.x # Get(ev.view).cand.x
    /\ viewport.y # Get(ev.view).cand.y

(* The far edges of the visible window, originX + 100/zoom <= 125 and      *)
(* originY + 80/zoom <= 100, up to the half grid step of a rounded origin.  *)
FarEdgesWithinOverscroll(v) ==
    /\ 2 * (4 * v.x * v.zoom + 4 * FIELD_WIDTH * ZOOM_UNIT)
          <= 2 * 5 * FIELD_WIDTH * v.zoom + 4 * v.zoom
    /\ 2 * (4 * v.y * v.zoom + 4 * FIELD_HEIGHT * ZOOM_UNIT)
          <= 2 * 5 * FIELD_HEIGHT * v.zoom + 4 * v.zoom

(* The near edges: originX >= -25 and originY >= -20 *)
NearEdgesWithinOverscroll(v) ==
    /\ 4 * v.x >= -FIELD_WIDTH
    /\ 4 * v.y >= -FIELD_HEIGHT

(* C10 as stated: in every reachable viewport the visible window extends at *)
(* most 25% of the surface dimension beyond each of the four surface edges. *)
C10_OverscrollBounded ==
    FarEdgesWithinOverscroll(viewport) /\ NearEdgesWithinOverscroll(viewport)

(* C10, amended: the window never extends more than 25% beyond the right    *)
(* and bottom edges, and never more than 25% beyond the left and top edges  *)
(* while zoom >= 2/3; below that the window is wider than 150% of the       *)
(* surface and its origin is 125 - 100/zoom (100 - 80/zoom), under the      *)
(* near bound.                                                              *)
C10_OverscrollBoundedAboveTwoThirds ==
    /\ FarEdgesWithinOverscroll(viewport)
    /\ 3 * viewport.zoom >= 2 * ZOOM_UNIT => NearEdgesWithinOverscroll(viewport)

(* A pan that the clamp stopped at the left overscroll limit. *)
C10_Witness ==
    /\ ev.type = "pan"
    /\ 3 * viewport.zoom >= 2 * ZOOM_UNIT
    /\ Get(ev.view).cand.x < viewport.x
    /\ 4 * viewport.x = -FIELD_WIDTH

-----------------------------------------------------------------------------
(* Properties of concurrent pointers, release, cancellation and teardown    *)
(* (Spec)                                                                   *)

(* C11: every pointer that is pressed and not yet released has its own     *)
(* live interaction: a press of a second pointer leaves the interaction of *)
(* the first one live.                                                     *)
C11_OneInteractionPerPointer ==
    \A p \in pressed : interaction.pointerId = p

(* C12: a press creates the interaction of its hit target: a token gives a *)
(* "player" interaction with the token's id, a route handle of the         *)
(* selected token a "route" interaction with the token's id and the        *)
(* handle's index, the bare surface a "field" interaction; the interaction *)
(* has the pressing pointer's id and has not moved.                        *)
C12_PressClassified ==
    ev.type = "down" =>
        /\ interaction.pointerId = ev.pointerId
        /\ ~interaction.moved
        /\ ev.target.kind = "player" =>
              /\ interaction.type = "player"
              /\ interaction.playerId = ev.target.id
        /\ ev.target.kind = "route" =>
              /\ interaction.type = "route"
              /\ interaction.playerId = ev.target.id
              /\ interaction.routeIndex = Some(ev.target.pointIndex)
              /\ selectedPlayerId = Some(ev.target.id)
        /\ ev.target.kind = "field" => interaction.type = "field"

(* A press on a route handle *)
C12_Witness ==
    /\ ev.type = "down"
    /\ ev.target.kind = "route"
    /\ interaction.type = "route"
    /\ interaction.routeIndex = Some(0)

(* C13: a release (or leave) of the pointer of the live interaction        *)
(* destroys the interaction, whatever its type, also when                  *)
(* releasePointerCapture throws.                                           *)
C13_ReleaseDestroysInteraction ==
    (ev.type \in {"up", "leave"} /\ ev.pre.itype # "null") =>
        interaction = NoInteraction

(* The release of a route-handle drag whose releasePointerCapture threw *)
C13_Witness ==
    /\ ev.type = "up"
    /\ ev.threw
    /\ ev.pre.itype = "route"
    /\ interaction = NoInteraction

(* C14: a pointer leave (cancel) that ends a live interaction makes no     *)
(* onUpdatePlayer call, appends no waypoint and leaves the selection as it *)
(* was, whether the interaction had moved or not.                          *)
C14_CancelHasNoTapEffect ==
    (ev.type = "leave" /\ ev.pre.itype # "null") =>
        /\ calls = <<>>
        /\ written = {}
        /\ selectedPlayerId = ev.pre.sel

(* C15: once the Field is unmounted no frame callback is pending and no    *)
(* onUpdatePlayer call is made.                                            *)
C15_NoUpdateAfterUnmount ==
    ~mounted =>
        /\ calls = <<>>
        /\ pendingFrame = None
        /\ pendingRouteFrame = None

(* An unmount with a token frame and a route frame pending *)
C15_Witness ==
    /\ ~mounted
    /\ ev.type = "unmount"
    /\ ev.n = 2
    /\ ~FramePending

(* C16: a frame callback updates a token only while the interaction that   *)
(* scheduled it is live: after the release of a token drag or of a         *)
(* route-handle drag, the update it scheduled does not fire.               *)
C16_NoUpdateAfterRelease ==
    /\ (ev.type = "frame" /\ calls # <<>>) =>
          /\ interaction.type = "player"
          /\ interaction.playerId = ev.target.id
    /\ (ev.type = "routeFrame" /\ calls # <<>>) =>
          /\ interaction.type = "route"
          /\ interaction.playerId = ev.target.id
          /\ interaction.routeIndex = Some(ev.target.pointIndex)

(* The points a drag can schedule, with the screen transform and without *)
DragPoints ==
    {ClampDrag(getSvgPointAssumed(c)) : c \in ClientPts} \cup {ClampDrag(Pt(0, 0))}

(* Token T is in the play, at P *)
Committed(T, P) ==
    LET player == FindPlayer(currentPlay, T)
    IN  IsSome(player) /\ Get(player).x = P.x /\ Get(player).y = P.y

(* A move event of a drag of token T has just scheduled P *)
JustScheduled(T, P) ==
    /\ ev.type = "move"
    /\ interaction.pointerId = ev.pointerId
    /\ interaction.type = "player"
    /\ interaction.playerId = T
    /\ scheduled[T] = Some(P)

(* C17: when a move of a drag of token T has scheduled P, then, frame      *)
(* callbacks running fairly, T is eventually at P, unless the drag         *)
(* schedules a newer point, the Field is unmounted or T is removed.        *)
C17_FinalSampleCommitted ==
    \A T \in TokenIds, P \in DragPoints :
        JustScheduled(T, P) ~>
            \/ Committed(T, P)
            \/ scheduled[T] # Some(P)
            \/ ~mounted
            \/ FindPlayer(currentPlay, T) = None

(* C18: a token frame callback whose token is no longer in the play when   *)
(* it runs makes no onUpdatePlayer call and the token stays removed.       *)
C18_RemovedTokenStaysRemoved ==
    (ev.type = "frame" /\ ev.before = None) =>
        /\ calls = <<>>
        /\ FindPlayer(currentPlay, ev.target.id) = None

(* C19: a route frame callback whose index is out of range for the path    *)
(* the token has when it runs leaves the token's path and position as      *)
(* they are.                                                               *)
C19_OutOfRangeMoveIsNoOp ==
    (/\ ev.type = "routeFrame"
     /\ IsSome(ev.before)
     /\ ev.target.pointIndex >= Len(Get(ev.before).route)) =>
        FindPlayer(currentPlay, ev.target.id) = ev.before

(* C20: the position a token frame callback gives token T is the last      *)
(* point a drag of T scheduled.                                            *)
C20_UpdateCarriesOwnPoint ==
    (ev.type = "frame" /\ calls # <<>>) =>
        /\ calls[1].id = ev.target.id
        /\ Some(Pt(calls[1].x, calls[1].y)) = ev.due

-----------------------------------------------------------------------------
(* Properties of the App's editing handlers (SpecEditor)                   *)

(* C21: a click on Clear Routes leaves every token with an empty path and  *)
(* changes nothing else: the number and order of the tokens and each       *)
(* token's position, id, role, label and color stay as they were.          *)
C21_ClearRoutesKeepsTokens ==
    [][ ev'.type = "clear" =>
          /\ Len(currentPlay') = Len(currentPlay)
          /\ \A i \in 1..Len(currentPlay) :
                /\ currentPlay'[i].route = <<>>
                /\ currentPlay'[i] = [currentPlay[i] EXCEPT !.route = <<>>]
          /\ selectedPlayerId' = selectedPlayerId
      ]_vars

(* Clear Routes on a play of five tokens, none with a path left and not    *)
(* all of them where the examples put them.                                *)
C21_Witness ==
    /\ ev.type = "clear"
    /\ Len(currentPlay) = 5
    /\ \A i \in 1..Len(currentPlay) : currentPlay[i].route = <<>>
    /\ \E i \in 1..Len(currentPlay) : currentPlay[i].x = 85

(* The mirror image of a path about the line x = 50 *)
MirrorRoute(route) ==
    [i \in 1..Len(route) |-> Pt(FIELD_WIDTH - route[i].x, route[i].y)]

(* The token a template was applied to, and the path the template gives a  *)
(* token at the mirrored position.                                         *)
PresetToken == Get(FindPlayer(currentPlay, ev.target.id))
MirroredPresetRoute ==
    PresetRoute(ev.template, [PresetToken EXCEPT !.x = FIELD_WIDTH - PresetToken.x])

(* C22 as stated: after a template is applied to a token at (x, y), the    *)
(* token's path is the clamped template output, and it is the mirror image *)
(* about x = 50 of the path the template gives a token at (100 - x, y),    *)
(* for every x.                                                            *)
C22_PresetMirrored ==
    ev.type = "preset" =>
        /\ PresetToken.route = PresetRoute(ev.template, PresetToken)
        /\ PresetToken.route = MirrorRoute(MirroredPresetRoute)

(* C22, amended: the same for every x other than 50. *)
C22_PresetMirroredOffCentre ==
    ev.type = "preset" =>
        /\ PresetToken.route = PresetRoute(ev.template, PresetToken)
        /\ PresetToken.x # 50 =>
              PresetToken.route = MirrorRoute(MirroredPresetRoute)

(* The corner template replaces the path of the token at (85, 60); its     *)
(* second waypoint is clamped to x = 98, the mirror image of x = 2.        *)
C22_Witness ==
    /\ ev.type = "preset"
    /\ ev.template = "corner"
    /\ PresetToken.x = 85
    /\ PresetToken.route = <<Pt(85, 45), Pt(98, 20)>>
    /\ MirroredPresetRoute = <<Pt(15, 45), Pt(2, 20)>>

-----------------------------------------------------------------------------
(* Properties of the drag trail (Spec)                                     *)

(* C23: in every state in which no token drag is live, the drag trail is   *)
(* empty.                                                                  *)
C23_TrailEmptyWithoutDrag ==
    interaction.type # "player" => dragTrail = <<>>

-----------------------------------------------------------------------------
(* Properties of the pan (SpecView)                                        *)

(* The model point of a client position under the viewBox of viewport v *)
SvgPointUnder(v, c) ==
    Pt(v.x + RoundDiv((c.clientX - CTM.e) * ZOOM_UNIT, CTM.a * v.zoom),
       v.y + RoundDiv((c.clientY - CTM.f) * ZOOM_UNIT, CTM.d * v.zoom))

(* The viewport a pan move gives when it depends on the anchor only: the   *)
(* anchor's origin less the displacement of the pointer from the press     *)
(* point, both taken in the anchor's model units, clamped, at the anchor's *)
(* zoom.                                                                   *)
PanFromAnchor(anchor, startPoint, c) ==
    clampViewport(Vp(anchor.x - (SvgPointUnder(anchor, c).x - startPoint.x),
                     anchor.y - (SvgPointUnder(anchor, c).y - startPoint.y),
                     anchor.zoom))

(* C24: after every move of a pan the viewport is the one the anchor       *)
(* viewport and the pointer's displacement from the press point give,      *)
(* whatever the viewport was when the move arrived.                        *)
C24_PanDependsOnAnchorOnly ==
    ev.type = "pan" =>
        viewport = PanFromAnchor(vInteraction.startViewport,
                                 Get(vInteraction.startPoint), Get(ev.client))

-----------------------------------------------------------------------------
(* Properties of advisory-text generation (SpecInsights)                   *)

(* C25: when the advisory-text call completes, the tokens of the play and  *)
(* the selection are as they were just before, and the notes are the notes *)
(* of just before with the text appended.                                  *)
C25_InsightsOnlyAppendNotes ==
    [][ ev'.type = "insights" =>
          /\ currentPlay' = currentPlay
          /\ selectedPlayerId' = selectedPlayerId
          /\ notes' = Append(notes, ev'.text)
      ]_vars

-----------------------------------------------------------------------------
(* Properties of the storage service (SpecStorage)                         *)

(* An item is missing when there is none or it is the empty text; a stored *)
(* item is malformed when it does not parse or parses to something other   *)
(* than an array, and well formed when it parses to an array.              *)
Missing(st) == st = None \/ Get(st).empty
Malformed(st) ==
    /\ ~Missing(st)
    /\ JSONparse(Get(st)).threw \/ JSONparse(Get(st)).value.type # "array"
WellFormed(st) ==
    IsSome(st) /\ ~JSONparse(Get(st)).threw /\ JSONparse(Get(st)).value.type = "array"

(* C26: no call of the storage service throws; getPlays on a missing item  *)
(* stores and returns the example list, getPlays on a malformed item       *)
(* returns the empty list, and savePlay and deletePlay leave a well-formed *)
(* list stored, whatever the item was.                                     *)
C26_StorageReadsNeverFail ==
    [][ ev'.type \in {"getPlays", "savePlay", "deletePlay"} =>
          /\ ~ev'.threw
          /\ (ev'.type = "getPlays" /\ Missing(storage)) =>
                /\ ev'.result = Some(JsArray(EXAMPLE_PLAYS))
                /\ storage' = Some(JSONstringify(JsArray(EXAMPLE_PLAYS)))
          /\ (ev'.type = "getPlays" /\ Malformed(storage)) =>
                ev'.result = Some(JsArray(<<>>))
          /\ ev'.type \in {"savePlay", "deletePlay"} => WellFormed(storage')
      ]_vars

-----------------------------------------------------------------------------
(* Properties of the coordinate mapping (SpecDegenerate)                   *)

(* C27: while the svg has no screen transform, every press, move and       *)
(* release is handled with the point (0,0), and a token position committed *)
(* from that point is (2,2), inside [2, 98] x [2, 78].                     *)
C27_DegeneratePointHandled ==
    /\ (~svgCTM /\ ev.type = "down") =>
          interaction.startPoint = Some(Pt(0, 0))
    /\ (~svgCTM /\ ev.type = "move" /\ interaction.type = "player"
          /\ interaction.pointerId = ev.pointerId) =>
          /\ batch.raw = Some(Pt(0, 0))
          /\ latestPoint = Some(Pt(2, 2))
    /\ (~svgCTM /\ ev.type = "up") => ev.point = Some(Pt(0, 0))
    /\ (ev.type = "frame" /\ ev.raw = Some(Pt(0, 0)) /\ calls # <<>>) =>
          /\ Pt(calls[1].x, calls[1].y) = Pt(2, 2)
          /\ InMargin(Pt(calls[1].x, calls[1].y))

(* A token dragged while the transform is missing is committed at (2,2). *)
C27_Witness ==
    /\ ~svgCTM
    /\ ev.type = "frame"
    /\ ev.raw = Some(Pt(0, 0))
    /\ Len(calls) = 1
    /\ FindPlayer(currentPlay, calls[1].id) = Some(calls[1])
    /\ Pt(calls[1].x, calls[1].y) = Pt(2, 2)

-----------------------------------------------------------------------------
(* Properties of clampViewport on any candidate (SpecClamp)                *)

(* C28: the viewport clampViewport returns for a candidate has its zoom    *)
(* within [0.6, 2.5], and its origin is the candidate's origin clamped to  *)
(* the overscroll range of that clamped zoom.                              *)
C28_ClampClampsZoomFirst ==
    ev.type = "clamp" =>
        LET cand == Get(ev.view).cand
            zoom == Min(MAX_ZOOM, Max(MIN_ZOOM, cand.zoom))
        IN  /\ viewport.zoom >= MIN_ZOOM
            /\ viewport.zoom <= MAX_ZOOM
            /\ viewport = clampViewport(Vp(cand.x, cand.y, zoom))

-----------------------------------------------------------------------------
(* Properties of unmatched pointer events (Spec)                           *)

(* C29: a move event of a pointer that has no live interaction (another    *)
(* pointer's interaction is live, or none is) changes nothing: the         *)
(* interaction and its moved flag, the pending frames and the latest       *)
(* point, the drag trail, the selection, the play and the viewport are as  *)
(* they were.                                                              *)
C29_UnmatchedMoveChangesNothing ==
    [][ (/\ ev'.type = "move"
         /\ (interaction.pointerId # ev'.pointerId \/ interaction.type = "null"))
        =>
        UNCHANGED <<interaction, pendingFrame, pendingRouteFrame, latestPoint,
                    dragTrail, isDragging, selectedPlayerId, currentPlay,
                    notes, viewport>>
      ]_vars

(* A move of another pointer during a live token drag: the drag has not    *)
(* moved and nothing is scheduled.                                         *)
C29_Witness ==
    /\ ev.type = "move"
    /\ interaction.type = "player"
    /\ interaction.pointerId # ev.pointerId
    /\ ~interaction.moved
    /\ pendingFrame = None
    /\ latestPoint = None

-----------------------------------------------------------------------------
(* Properties of pan and zoom together (SpecView)                          *)

(* C30: after every move of a pan the zoom is what it was just before the  *)
(* move.                                                                   *)
C30_PanKeepsZoom ==
    ev.type = "pan" => viewport.zoom = Get(ev.view).prev.zoom

-----------------------------------------------------------------------------
(* Properties of the drag trail over a long drag (SpecTrail)               *)

(* C31: the drag trail never holds more than TRAIL_MAX (10) points, and a  *)
(* frame callback that commits a point leaves in it the last 10 of the     *)
(* points it held followed by the committed one, in that order: the oldest *)
(* are dropped.                                                            *)
C31_TrailKeepsLastTen ==
    [][ /\ Len(dragTrail) <= TRAIL_MAX
        /\ Len(dragTrail') <= TRAIL_MAX
        /\ (ev'.type = "frame" /\ calls' # <<>>) =>
              LET full == Append(dragTrail, CHOOSE p \in written' : TRUE)
                  keep == Min(Len(full), TRAIL_MAX)
              IN /\ Len(dragTrail') = keep
                 /\ \A i \in 1..keep :
                       dragTrail'[i] = full[Len(full) - keep + i]
      ]_vars

(* A commit has just dropped the oldest point: the trail is full and holds  *)
(* more points committed since the start of the session than it had room    *)
(* for.                                                                     *)
C31_Witness ==
    /\ ev.type = "frame"
    /\ calls # <<>>
    /\ Len(dragTrail) = TRAIL_MAX
    /\ \A i \in TrailStart..TRAIL_MAX : dragTrail[i] # DragStart

-----------------------------------------------------------------------------
(* Properties of batched updates against the play as it is when they are   *)
(* applied (Spec)                                                          *)

(* C32: a waypoint-drag update replaces the waypoint at the dragged index  *)
(* of the dragged token and nothing else: after the route frame callback   *)
(* has made its call the play has the tokens it had just before, the       *)
(* dragged token differs at most in that waypoint (same path length, same  *)
(* other waypoints, same position) and every other token is as it was.     *)
C32_WaypointUpdateIndexTargeted ==
    [][ (ev'.type = "routeFrame" /\ calls' # <<>>) =>
          /\ Len(currentPlay') = Len(currentPlay)
          /\ \A i \in 1..Len(currentPlay) :
                IF currentPlay[i].id = ev'.target.id
                THEN /\ currentPlay'[i] =
                          [currentPlay[i] EXCEPT !.route = currentPlay'[i].route]
                     /\ Len(currentPlay'[i].route) = Len(currentPlay[i].route)
                     /\ \A k \in 1..Len(currentPlay[i].route) :
                           k - 1 # ev'.target.pointIndex =>
                              currentPlay'[i].route[k] = currentPlay[i].route[k]
                ELSE currentPlay'[i] = currentPlay[i]
      ]_vars

C34_BatchedUpdateMerges ==
    [][ (ev'.type \in {"frame", "routeFrame"} /\ calls' # <<>>) =>
          /\ Len(currentPlay') = Len(currentPlay)
          /\ \A i \in 1..Len(currentPlay) :
                IF currentPlay[i].id # ev'.target.id
                THEN currentPlay'[i] = currentPlay[i]
                ELSE IF ev'.type = "frame"
                THEN currentPlay'[i] =
                        [currentPlay[i] EXCEPT !.x = currentPlay'[i].x,
                                               !.y = currentPlay'[i].y]
                ELSE currentPlay'[i] =
                        [currentPlay[i] EXCEPT !.route = currentPlay'[i].route]
      ]_vars

(* C35: the dragging flag is set only while a token drag is live: in every *)
(* state whose interaction is not a token drag the flag is false.          *)
C35_DraggingOnlyDuringTokenDrag ==
    isDragging => interaction.type = "player"

-----------------------------------------------------------------------------
(* Properties of defense tokens (SpecDefense)                              *)

(* C38: a defense token never has a path: in every state of a session that *)
(* starts with pathless defenders, every token of role DEFENSE has the      *)
(* empty route, whatever was pressed, tapped, dragged, applied or added.    *)
C38_DefenseHasNoPath ==
    \A i \in 1..Len(currentPlay) :
        currentPlay[i].role = DEFENSE => currentPlay[i].route = <<>>

(* A tap on the surface has just been released while a defender added by    *)
(* add-defender was selected: the tap deselected it.                        *)
C38_Witness ==
    /\ ev.type = "up"
    /\ ev.pre.itype = "field"
    /\ ~ev.pre.moved
    /\ IsSome(ev.pre.sel)
    /\ Get(ev.pre.sel) \in NewIds
    /\ selectedPlayerId = None
    /\ \E i \in 1..Len(currentPlay) :
          currentPlay[i].id \in NewIds /\ currentPlay[i].role = DEFENSE

-----------------------------------------------------------------------------
(* Properties of the selection and of the tokens the program places        *)
(* (SpecPlaybook)                                                          *)

(* C36: the selection is none or the id of a token of the current play,    *)
(* whatever plays were created or opened, tokens pressed, removed or added *)
(* and whenever the user went back to the list.                            *)
C36_SelectionIsPresentToken ==
    IsSome(selectedPlayerId) =>
        IsSome(FindPlayer(currentPlay, Get(selectedPlayerId)))

(* C39: every token the program creates starts within the margin: the      *)
(* tokens of a play made by createEmptyPlay, those of the example plays     *)
(* the playbook opens, and a defender added by add-defender have their      *)
(* position and every point of their path in [2, 98] x [2, 78].            *)
C39_CreatedTokensWithinMargin ==
    ev.type \in {"create", "edit", "addDefender"} =>
        \A i \in 1..Len(Get(ev.result)) :
            LET player == Get(ev.result)[i] IN
            /\ InMargin(Pt(player.x, player.y))
            /\ \A k \in 1..Len(player.route) : InMargin(player.route[k])

-----------------------------------------------------------------------------
(* Properties of the read-only flag (SpecReadOnly)                         *)

(* C37: while the read-only flag is true no pointer event makes the        *)
(* controller call onUpdatePlayer or onSelectPlayer: a press, move or      *)
(* release handled while the flag is true, and a frame callback that fires *)
(* while it is true, makes no update call and leaves the selection as it   *)
(* is.                                                                     *)
C37_ReadOnlyMakesNoCalls ==
    [][ (readOnly /\ ev'.type \in {"down", "move", "up", "leave", "frame"}) =>
          /\ calls' = <<>>
          /\ selectedPlayerId' = selectedPlayerId
      ]_vars

-----------------------------------------------------------------------------
(* Properties of advisory generation (SpecInsightsFair)                    *)

(* C40: advisory generation always completes: once the loading flag is set *)
(* it eventually becomes false again, and the text a completed call hands  *)
(* to the notes is always a string, the model's text or one of the fixed   *)
(* fallback strings.                                                       *)
C40_InsightsAlwaysComplete ==
    /\ isLoadingAI ~> ~isLoadingAI
    /\ [](ev.type = "insights" => ev.text \in InsightTexts)

(* A call that failed has completed: the flag is false again and the notes *)
(* end with the fallback string of the catch block.                        *)
C40_Witness ==
    /\ ev.type = "insights"
    /\ ~isLoadingAI
    /\ ev.text = "An error occurred while contacting the AI Coach."
    /\ notes # <<>>
    /\ notes[Len(notes)] = ev.text

=============================================================================
